---- MODULE Spec2Model ----
(***************************************************************************)
(* otpilot-tool: host-side client of a root-of-trust device reached through *)
(* a mailbox window on SPI.  The module models                              *)
(*   - the envelope / sub-protocol framing of wire/firmware.rs and          *)
(*     wire/manticore.rs (serialize, deserialize),                          *)
(*   - the request/response exchanges and the chunked firmware update of    *)
(*     main.rs (the methods of Device).                                     *)
(* The byte layouts of the spiutils / manticore codecs are not part of the  *)
(* sources at hand; they follow the layout given in the design document.    *)
(***************************************************************************)
EXTENDS Integers, Sequences, FiniteSets, TLC

(***************************************************************************)
(* Program constants                                                        *)
(***************************************************************************)
SPI_MAX_WRITE == 512
SPI_MAX_READ == 2048
HAVENTOOL_DEFAULT_MAILBOX_ADDR == 524288     \* 0x80000

\* Envelope header: content-type tag (1) + content length (2) + checksum (2).
HEADER_LEN == 5

Byte == 0..255
U16 == 2 ^ 16

Min(a, b) == IF a < b THEN a ELSE b
Max(a, b) == IF a > b THEN a ELSE b

(***************************************************************************)
(* Byte helpers of the codec library                                        *)
(***************************************************************************)
BE16(n) == << (n \div 256) % 256, n % 256 >>
BE32(n) == << (n \div 16777216) % 256, (n \div 65536) % 256,
              (n \div 256) % 256, n % 256 >>

\* Big-endian reads from a byte sequence, 1-based position p.
RdU16(s, p) == s[p] * 256 + s[p + 1]
RdU32(s, p) == ((s[p] * 256 + s[p + 1]) * 256 + s[p + 2]) * 256 + s[p + 3]

RECURSIVE SumSeq(_, _, _)
SumSeq(s, lo, hi) ==
    IF lo > hi THEN 0
    ELSE IF lo = hi THEN s[lo]
    ELSE LET mid == (lo + hi) \div 2
         IN  SumSeq(s, lo, mid) + SumSeq(s, mid + 1, hi)

\* s[lo..hi], empty when lo > hi.
Slice(s, lo, hi) == IF lo > hi THEN << >> ELSE SubSeq(s, lo, hi)

(***************************************************************************)
(* A buffer of fixed length `len` whose first bytes are `frame` and whose   *)
(* remaining bytes all equal `pad`: the zeroed send buffer of send_firmware *)
(* with a frame written into it, or the response window of read_mailbox.    *)
(***************************************************************************)
Buffer(frame, pad, len) == [frame |-> frame, pad |-> pad, len |-> len]

BufAt(b, i) == IF i <= Len(b.frame) THEN b.frame[i] ELSE b.pad

\* Sum of the bytes at positions lo..hi of the buffer (hi <= b.len).
BufSum(b, lo, hi) ==
    SumSeq(b.frame, lo, Min(hi, Len(b.frame)))
      + b.pad * Max(0, hi - Max(lo - 1, Len(b.frame)))

\* The bytes at positions lo..hi of the buffer, as a sequence.
BufSlice(b, lo, hi) == [i \in 1..Max(0, hi - lo + 1) |-> BufAt(b, lo + i - 1)]

(***************************************************************************)
(* Envelope (spiutils::protocol::payload)                                   *)
(***************************************************************************)
ContentType == [Error |-> 0, Manticore |-> 1, Firmware |-> 2]
ContentTypeValues == {ContentType.Error, ContentType.Manticore, ContentType.Firmware}

\* payload::compute_checksum(header, payload): the header with its checksum
\* field taken as zero, then the first content_len bytes of `payload`, which
\* is the part of buffer b after position `skip`.  Slicing more bytes than the
\* buffer holds is a fault of its own, told by ChecksumInBounds.
ChecksumInBounds(content_len, b, skip) == skip + content_len <= b.len

compute_checksum(content, content_len, b, skip) ==
    (content + SumSeq(BE16(content_len), 1, 2)
       + BufSum(b, skip + 1, skip + content_len)) % U16

\* payload::Header::to_wire
HeaderToWire(h) == << h.content >> \o BE16(h.content_len) \o BE16(h.checksum)

\* payload::Header::from_wire on the first HEADER_LEN bytes of buffer b.
HeaderFromWire(b) ==
    IF b.len < HEADER_LEN \/ BufAt(b, 1) \notin ContentTypeValues
    THEN [ok |-> FALSE, content |-> 0, content_len |-> 0, checksum |-> 0]
    ELSE [ok |-> TRUE,
          content |-> BufAt(b, 1),
          content_len |-> BufAt(b, 2) * 256 + BufAt(b, 3),
          checksum |-> BufAt(b, 4) * 256 + BufAt(b, 5)]

(***************************************************************************)
(* Firmware-control family (spiutils::protocol::firmware)                   *)
(***************************************************************************)
SegmentAndLocation == {"RoA", "RoB", "RwA", "RwB"}
SegmentWire == [RoA |-> 1, RoB |-> 2, RwA |-> 3, RwB |-> 4]
SegmentOfWire(v) == CHOOSE s \in SegmentAndLocation : SegmentWire[s] = v
SegmentWireValues == {SegmentWire[s] : s \in SegmentAndLocation}

\* UpdatePrepareResult / WriteChunkResult: Success and the other result codes.
ResultWire == [Success |-> 0, Busy |-> 1, Rejected |-> 2]
ResultNames == {"Success", "Busy", "Rejected"}
ResultOfWire(v) == CHOOSE r \in ResultNames : ResultWire[r] = v
ResultWireValues == {ResultWire[r] : r \in ResultNames}

\* The command code of the firmware sub-header, one per exchange: a request
\* and its response carry the same command.
FirmwareCommand ==
    [InactiveSegmentsInfo |-> 1, UpdatePrepare |-> 2, WriteChunk |-> 3, Reboot |-> 4]
FirmwareCommandValues == {1, 2, 3, 4}

\* M::TYPE of a firmware message type.
FirmwareType(type) ==
    CASE type \in {"InactiveSegmentsInfoRequest", "InactiveSegmentsInfoResponse"}
           -> FirmwareCommand.InactiveSegmentsInfo
      [] type \in {"UpdatePrepareRequest", "UpdatePrepareResponse"}
           -> FirmwareCommand.UpdatePrepare
      [] type \in {"WriteChunkRequest", "WriteChunkResponse"}
           -> FirmwareCommand.WriteChunk
      [] type \in {"RebootRequest", "RebootResponse"}
           -> FirmwareCommand.Reboot

SegmentInfoToWire(si) == << SegmentWire[si.identifier] >> \o BE32(si.size)

\* Message::to_wire of the firmware messages (requests, and the responses
\* the device builds).
FirmwareToWire(msg) ==
    CASE msg.type = "InactiveSegmentsInfoRequest" -> << >>
      [] msg.type = "InactiveSegmentsInfoResponse" ->
           SegmentInfoToWire(msg.ro) \o SegmentInfoToWire(msg.rw)
      [] msg.type = "UpdatePrepareRequest" ->
           << SegmentWire[msg.segment_and_location] >>
      [] msg.type = "UpdatePrepareResponse" ->
           << SegmentWire[msg.segment_and_location] >>
             \o BE16(msg.max_chunk_length) \o << ResultWire[msg.result] >>
      [] msg.type = "WriteChunkRequest" ->
           << SegmentWire[msg.segment_and_location] >> \o BE32(msg.offset) \o msg.data
      [] msg.type = "WriteChunkResponse" ->
           << SegmentWire[msg.segment_and_location] >>
             \o BE32(msg.offset) \o << ResultWire[msg.result] >>
      [] msg.type = "RebootRequest" -> << msg.time >>
      [] msg.type = "RebootResponse" -> << msg.time >>

NoMsg == [type |-> "None"]

\* Message::from_wire of the firmware responses: d is what follows the
\* sub-header, already cut to the content length.  NoMsg when it fails.
FirmwareFromWire(type, d) ==
    CASE type = "InactiveSegmentsInfoResponse" ->
           IF Len(d) >= 10 /\ d[1] \in SegmentWireValues /\ d[6] \in SegmentWireValues
           THEN [type |-> type,
                 ro |-> [identifier |-> SegmentOfWire(d[1]), size |-> RdU32(d, 2)],
                 rw |-> [identifier |-> SegmentOfWire(d[6]), size |-> RdU32(d, 7)]]
           ELSE NoMsg
      [] type = "UpdatePrepareResponse" ->
           IF Len(d) >= 4 /\ d[1] \in SegmentWireValues /\ d[4] \in ResultWireValues
           THEN [type |-> type,
                 segment_and_location |-> SegmentOfWire(d[1]),
                 max_chunk_length |-> RdU16(d, 2),
                 result |-> ResultOfWire(d[4])]
           ELSE NoMsg
      [] type = "WriteChunkResponse" ->
           IF Len(d) >= 6 /\ d[1] \in SegmentWireValues /\ d[6] \in ResultWireValues
           THEN [type |-> type,
                 segment_and_location |-> SegmentOfWire(d[1]),
                 offset |-> RdU32(d, 2),
                 result |-> ResultOfWire(d[6])]
           ELSE NoMsg
      [] type = "RebootResponse" ->
           IF Len(d) >= 1 THEN [type |-> type, time |-> d[1]] ELSE NoMsg
      [] OTHER -> NoMsg

(***************************************************************************)
(* Query family (manticore::protocol)                                       *)
(***************************************************************************)
ManticoreCommand == [DeviceInfo |-> 1, FirmwareVersion |-> 2]
ManticoreCommandValues == {1, 2}

ManticoreType(type) ==
    CASE type \in {"DeviceInfoRequest", "DeviceInfoResponse"}
           -> ManticoreCommand.DeviceInfo
      [] type \in {"FirmwareVersionRequest", "FirmwareVersionResponse"}
           -> ManticoreCommand.FirmwareVersion

\* manticore::protocol::Header: a direction flag, then the command.
ManticoreHeaderToWire(is_request, command) ==
    << IF is_request THEN 1 ELSE 0, command >>

ManticoreToWire(msg) ==
    CASE msg.type = "DeviceInfoRequest" -> << msg.index >>
      [] msg.type = "DeviceInfoResponse" -> msg.info
      [] msg.type = "FirmwareVersionRequest" -> << msg.index >>
      [] msg.type = "FirmwareVersionResponse" -> msg.version

ManticoreFromWire(type, d) ==
    CASE type = "DeviceInfoResponse" ->
           IF Len(d) >= 1 THEN [type |-> type, info |-> d] ELSE NoMsg
      [] type = "FirmwareVersionResponse" ->
           IF Len(d) >= 1 THEN [type |-> type, version |-> d] ELSE NoMsg
      [] OTHER -> NoMsg

(***************************************************************************)
(* Error sub-header (spiutils::protocol::error)                             *)
(***************************************************************************)
ErrorCodeValues == {0, 1, 2}

(***************************************************************************)
(* wire/firmware.rs and wire/manticore.rs                                   *)
(***************************************************************************)
Zeros(n) == [i \in 1..n |-> 0]

\* What serialize yields: the frame &buf[..len], or the fault it panics with.
Serialized(fault, frame) == [fault |-> fault, frame |-> frame]

\* What deserialize yields: the typed message, or the fault it panics with.
\* content and body record the envelope as decoded (spi_header.content and
\* data once cut to content_len) when the envelope checks have passed.
Decoded(fault, msg, content, body) ==
    [fault |-> fault, msg |-> msg, content |-> content, body |-> body]
Failed(fault) == Decoded(fault, NoMsg, -1, << >>)

\* Mutant of firmware_serialize: a message that does not fit is cut to the
\* size of the buffer.
firmware_serialize_truncating(msg, buf_len) ==
    LET whole == << FirmwareType(msg.type) >> \o FirmwareToWire(msg)
        body == Slice(whole, 1, Min(Len(whole), buf_len - HEADER_LEN))
        payload_len == Len(body)
        buf == Buffer(Zeros(HEADER_LEN) \o body, 0, buf_len)
        header == [content |-> ContentType.Firmware,
                   content_len |-> payload_len,
                   checksum |-> compute_checksum(ContentType.Firmware,
                                                 payload_len, buf, HEADER_LEN)]
    IN  Serialized("none", HeaderToWire(header) \o body)

\* Mutant of firmware_serialize: content_len counts the envelope header too.
firmware_serialize_total_len(msg, buf_len) ==
    LET body == << FirmwareType(msg.type) >> \o FirmwareToWire(msg)
    IN  IF HEADER_LEN + Len(body) > buf_len
        THEN Serialized("ToWire", << >>)
        ELSE LET payload_len == HEADER_LEN + Len(body)
                 buf == Buffer(Zeros(HEADER_LEN) \o body, 0, buf_len)
                 header == [content |-> ContentType.Firmware,
                            content_len |-> payload_len,
                            checksum |-> compute_checksum(ContentType.Firmware,
                                                          payload_len, buf, HEADER_LEN)]
             IN  Serialized("none", HeaderToWire(header) \o body)

\* wire::firmware::serialize(msg, buf), buf a zeroed buffer of buf_len bytes.
firmware_serialize(msg, buf_len) ==
    LET body == << FirmwareType(msg.type) >> \o FirmwareToWire(msg)
    IN  IF HEADER_LEN + Len(body) > buf_len
        THEN Serialized("ToWire", << >>)
        ELSE IF Len(body) >= U16
        THEN Serialized("PayloadLen", << >>)
        ELSE LET payload_len == Len(body)
                 buf == Buffer(Zeros(HEADER_LEN) \o body, 0, buf_len)
                 header == [content |-> ContentType.Firmware,
                            content_len |-> payload_len,
                            checksum |-> compute_checksum(ContentType.Firmware,
                                                          payload_len, buf, HEADER_LEN)]
             IN  Serialized("none", HeaderToWire(header) \o body)

\* Mutant of firmware_bad_checksum: only the low byte of the checksum is compared.
firmware_bad_checksum_low_byte(spi_header, data) ==
    spi_header.checksum % 256
      # compute_checksum(spi_header.content, spi_header.content_len, data, HEADER_LEN) % 256

\* wire::firmware::deserialize: the comparison of the checksum of the header
\* with the one computed over the received bytes.
firmware_bad_checksum(spi_header, data) ==
    spi_header.checksum
      # compute_checksum(spi_header.content, spi_header.content_len, data, HEADER_LEN)

\* Mutant of firmware_content_fault: the Error content type is not looked at.
firmware_content_fault_no_error(spi_header, data) ==
    IF spi_header.content # ContentType.Firmware
    THEN "UnexpectedContentType"
    ELSE "none"

\* wire::firmware::deserialize: the checks of the content type of the
\* envelope: "none", or the panic.
firmware_content_fault(spi_header, data) ==
    IF spi_header.content = ContentType.Error
    THEN IF HEADER_LEN + 1 <= data.len
              /\ BufAt(data, HEADER_LEN + 1) \in ErrorCodeValues
         THEN "DeviceReportedError"
         ELSE "ErrorHeaderParse"
    ELSE IF spi_header.content # ContentType.Firmware
    THEN "UnexpectedContentType"
    ELSE "none"

\* Mutant of firmware_deserialize: the content type of the envelope is
\* looked at before the checksum.
firmware_deserialize_content_first(data, expected) ==
    LET spi_header == HeaderFromWire(data)
    IN  IF ~spi_header.ok THEN Failed("HeaderParse")
        ELSE IF firmware_content_fault(spi_header, data) # "none"
        THEN Failed(firmware_content_fault(spi_header, data))
        ELSE IF ~ChecksumInBounds(spi_header.content_len, data, HEADER_LEN)
        THEN Failed("Bounds")
        ELSE IF firmware_bad_checksum(spi_header, data)
        THEN Failed("Checksum")
        ELSE LET d == BufSlice(data, HEADER_LEN + 1,
                               HEADER_LEN + spi_header.content_len)
             IN  IF Len(d) < 1 \/ d[1] \notin FirmwareCommandValues
                 THEN Decoded("SubHeaderParse", NoMsg, spi_header.content, d)
                 ELSE IF d[1] # FirmwareType(expected)
                 THEN Decoded("UnexpectedMessageType", NoMsg, spi_header.content, d)
                 ELSE LET msg == FirmwareFromWire(expected, Tail(d))
                      IN  IF msg.type = "None"
                          THEN Decoded("BodyParse", NoMsg, spi_header.content, d)
                          ELSE Decoded("none", msg, spi_header.content, d)

\* wire::firmware::deserialize::<M>(data), M named by `expected`.
firmware_deserialize(data, expected) ==
    LET spi_header == HeaderFromWire(data)
    IN  IF ~spi_header.ok THEN Failed("HeaderParse")
        ELSE IF ~ChecksumInBounds(spi_header.content_len, data, HEADER_LEN)
        THEN Failed("Bounds")
        ELSE IF firmware_bad_checksum(spi_header, data)
        THEN Failed("Checksum")
        ELSE IF firmware_content_fault(spi_header, data) # "none"
        THEN Failed(firmware_content_fault(spi_header, data))
        ELSE LET d == BufSlice(data, HEADER_LEN + 1,
                               HEADER_LEN + spi_header.content_len)
             IN  IF Len(d) < 1 \/ d[1] \notin FirmwareCommandValues
                 THEN Decoded("SubHeaderParse", NoMsg, spi_header.content, d)
                 ELSE IF d[1] # FirmwareType(expected)
                 THEN Decoded("UnexpectedMessageType", NoMsg, spi_header.content, d)
                 ELSE LET msg == FirmwareFromWire(expected, Tail(d))
                      IN  IF msg.type = "None"
                          THEN Decoded("BodyParse", NoMsg, spi_header.content, d)
                          ELSE Decoded("none", msg, spi_header.content, d)

\* wire::manticore::serialize(msg, buf), buf a zeroed buffer of buf_len bytes.
manticore_serialize(msg, buf_len) ==
    LET body == ManticoreHeaderToWire(TRUE, ManticoreType(msg.type))
                  \o ManticoreToWire(msg)
    IN  IF HEADER_LEN + Len(body) > buf_len
        THEN Serialized("ToWire", << >>)
        ELSE IF Len(body) >= U16
        THEN Serialized("PayloadLen", << >>)
        ELSE LET payload_len == Len(body)
                 buf == Buffer(Zeros(HEADER_LEN) \o body, 0, buf_len)
                 header == [content |-> ContentType.Manticore,
                            content_len |-> payload_len,
                            checksum |-> compute_checksum(ContentType.Manticore,
                                                          payload_len, buf, HEADER_LEN)]
             IN  Serialized("none", HeaderToWire(header) \o body)

\* Mutant of manticore_bad_checksum: an Error envelope is let through unchecked.
manticore_bad_checksum_skip_error(spi_header, data) ==
    /\ spi_header.content # ContentType.Error
    /\ spi_header.checksum
         # compute_checksum(spi_header.content, spi_header.content_len, data, HEADER_LEN)

\* wire::manticore::deserialize: the comparison of the checksum of the
\* header with the one computed over the received bytes.
manticore_bad_checksum(spi_header, data) ==
    spi_header.checksum
      # compute_checksum(spi_header.content, spi_header.content_len, data, HEADER_LEN)

\* wire::manticore::deserialize: the checks of the content type of the
\* envelope: "none", or the panic.
manticore_content_fault(spi_header, data) ==
    IF spi_header.content = ContentType.Error
    THEN IF HEADER_LEN + 1 <= data.len
              /\ BufAt(data, HEADER_LEN + 1) \in ErrorCodeValues
         THEN "DeviceReportedError"
         ELSE "ErrorHeaderParse"
    ELSE IF spi_header.content # ContentType.Manticore
    THEN "UnexpectedContentType"
    ELSE "none"

\* Mutant of manticore_deserialize: header.is_request is not looked at.
manticore_deserialize_any_direction(data, expected) ==
    LET spi_header == HeaderFromWire(data)
    IN  IF ~spi_header.ok THEN Failed("HeaderParse")
        ELSE IF ~ChecksumInBounds(spi_header.content_len, data, HEADER_LEN)
        THEN Failed("Bounds")
        ELSE IF manticore_bad_checksum(spi_header, data)
        THEN Failed("Checksum")
        ELSE IF manticore_content_fault(spi_header, data) # "none"
        THEN Failed(manticore_content_fault(spi_header, data))
        ELSE LET d == BufSlice(data, HEADER_LEN + 1,
                               HEADER_LEN + spi_header.content_len)
             IN  IF Len(d) < 2 \/ d[2] \notin ManticoreCommandValues
                 THEN Decoded("SubHeaderParse", NoMsg, spi_header.content, d)
                 ELSE IF d[2] # ManticoreType(expected)
                 THEN Decoded("UnexpectedMessageType", NoMsg, spi_header.content, d)
                 ELSE LET msg == ManticoreFromWire(expected, Tail(Tail(d)))
                      IN  IF msg.type = "None"
                          THEN Decoded("BodyParse", NoMsg, spi_header.content, d)
                          ELSE Decoded("none", msg, spi_header.content, d)

\* wire::manticore::deserialize::<M>(data), M named by `expected`.
manticore_deserialize(data, expected) ==
    LET spi_header == HeaderFromWire(data)
    IN  IF ~spi_header.ok THEN Failed("HeaderParse")
        ELSE IF ~ChecksumInBounds(spi_header.content_len, data, HEADER_LEN)
        THEN Failed("Bounds")
        ELSE IF manticore_bad_checksum(spi_header, data)
        THEN Failed("Checksum")
        ELSE IF manticore_content_fault(spi_header, data) # "none"
        THEN Failed(manticore_content_fault(spi_header, data))
        ELSE LET d == BufSlice(data, HEADER_LEN + 1,
                               HEADER_LEN + spi_header.content_len)
             IN  IF Len(d) < 2 \/ d[2] \notin ManticoreCommandValues
                 THEN Decoded("SubHeaderParse", NoMsg, spi_header.content, d)
                 ELSE IF d[2] # ManticoreType(expected)
                 THEN Decoded("UnexpectedMessageType", NoMsg, spi_header.content, d)
                 ELSE IF d[1] % 2 = 1
                 THEN Decoded("UnexpectedDirection", NoMsg, spi_header.content, d)
                 ELSE LET msg == ManticoreFromWire(expected, Tail(Tail(d)))
                      IN  IF msg.type = "None"
                          THEN Decoded("BodyParse", NoMsg, spi_header.content, d)
                          ELSE Decoded("none", msg, spi_header.content, d)

(***************************************************************************)
(* State                                                                    *)
(***************************************************************************)
VARIABLES
    \* --- one invocation of the tool (main.rs) ---
    cmd,               \* the subcommand given on the command line
    haventool_arg,     \* whether --haventool is given
    spidevice_arg,     \* whether --spidevice is given
    mailbox_arg,       \* --mailbox_addr: "default", "explicit" or "bad" (not hex)
    spi,               \* the Interface of Device: "none", "haventool", "spidevice"
    mailbox_addr,      \* Device.mailbox_addr, -1 before Device::new
    tool,              \* history: the invocations of the external tool
    spi_err,           \* the spi::Error of the failed transport call, or "none"
    files,             \* lengths of the image files given as image_a, image_b
    pc,                \* where the invocation stands
    inactive,          \* SegmentInfo returned by firmware_get_inactive_ro/rw
    file_name,         \* "a" or "b": the file ro_update / rw_update selected
    file_len,          \* fw_update: file_buf.len()
    max_chunk_length,  \* fw_update: what firmware_update_prepare returned
    pos,               \* fw_update: the cursor
    mailbox,           \* the frame last written to the mailbox address
    rx,                \* the window last read from the mailbox address
    resp,              \* what the last deserialize yielded
    fault,             \* "none", or the panic that ended the invocation
    trace,             \* history: the mailbox writes and reads, in order
    \* --- the codec on its own (wire/firmware.rs, wire/manticore.rs) ---
    wmsg,              \* the message at hand
    wframe,            \* its encoded frame
    wrx,               \* the window handed to deserialize
    wout,              \* what deserialize yielded for wrx
    wop,               \* what was done to the frame before decoding
    wbit,              \* the number of the bit that was flipped, or -1
    \* --- the temp file of spi::haventool::Instance (spi/haventool.rs) ---
    tmpfs,             \* the contents of the files under /tmp, by path
    usr,               \* each user of the transport: its call and where it stands
    owners,            \* the users that make calls
    tlog               \* history: what was done to the temp file, tool runs, read-backs

sessVars == << cmd, haventool_arg, spidevice_arg, mailbox_arg, spi, mailbox_addr,
               tool, spi_err, files, pc, inactive, file_name, file_len,
               max_chunk_length, pos, mailbox, rx, resp, fault, trace >>
wireVars == << wmsg, wframe, wrx, wout, wop, wbit >>
tmpVars == << tmpfs, usr, owners, tlog >>
vars == << sessVars, wireVars, tmpVars >>

NoSegment == [identifier |-> "None", size |-> 0]
EmptyWindow == Buffer(<< >>, 0, SPI_MAX_READ)

SessIdle ==
    /\ cmd = "none" /\ files = [a |-> 0, b |-> 0] /\ pc = "idle"
    /\ haventool_arg = FALSE /\ spidevice_arg = FALSE /\ mailbox_arg = "default"
    /\ spi = "none" /\ mailbox_addr = -1 /\ tool = << >> /\ spi_err = "none"
    /\ inactive = NoSegment /\ file_name = "none" /\ file_len = 0
    /\ max_chunk_length = 0 /\ pos = 0 /\ mailbox = << >> /\ rx = EmptyWindow
    /\ resp = Failed("idle") /\ fault = "none" /\ trace = << >>

\* The users of the tool-backed transport and the paths under /tmp.
Users == {1, 2}
TmpPaths == {"/tmp/spitmp", "/tmp/spitmp.1", "/tmp/spitmp.2"}
NoCall ==
    [pc |-> "idle", op |-> "none", data |-> << >>, got |-> << >>,
     err |-> "none", left |-> 0]
TmpIdle ==
    /\ tmpfs = [p \in TmpPaths |-> << >>] /\ usr = [u \in Users |-> NoCall]
    /\ owners = {} /\ tlog = << >>

WireIdle ==
    /\ wmsg = NoMsg /\ wframe = << >> /\ wrx = EmptyWindow
    /\ wout = Failed("idle") /\ wop = "idle" /\ wbit = -1

(***************************************************************************)
(* Bounds of the model                                                      *)
(***************************************************************************)
MaxWireData == 2      \* data bytes of a WriteChunkRequest in the codec runs
MaxImageLen == 3      \* length of a small image file
MaxChunkLen == 2      \* a small negotiated max_chunk_length

(***************************************************************************)
(* The codec on its own: a message is encoded, then its frame is decoded    *)
(* as it is, with one bit flipped, or with a header that was tampered with. *)
(***************************************************************************)
IsFirmware(type) ==
    type \in {"InactiveSegmentsInfoRequest", "InactiveSegmentsInfoResponse",
              "UpdatePrepareRequest", "UpdatePrepareResponse",
              "WriteChunkRequest", "WriteChunkResponse",
              "RebootRequest", "RebootResponse"}
IsRequest(type) ==
    type \in {"InactiveSegmentsInfoRequest", "UpdatePrepareRequest",
              "WriteChunkRequest", "RebootRequest",
              "DeviceInfoRequest", "FirmwareVersionRequest"}

\* The response type a call site expects for a request type.
ResponseType(type) ==
    CASE type = "InactiveSegmentsInfoRequest" -> "InactiveSegmentsInfoResponse"
      [] type = "UpdatePrepareRequest" -> "UpdatePrepareResponse"
      [] type = "WriteChunkRequest" -> "WriteChunkResponse"
      [] type = "RebootRequest" -> "RebootResponse"
      [] type = "DeviceInfoRequest" -> "DeviceInfoResponse"
      [] type = "FirmwareVersionRequest" -> "FirmwareVersionResponse"
      [] OTHER -> type

FamilyContent(type) ==
    IF IsFirmware(type) THEN ContentType.Firmware ELSE ContentType.Manticore

\* Sub-header and message bytes of a message, as its codec writes them.
BodyBytes(msg) ==
    IF IsFirmware(msg.type)
    THEN << FirmwareType(msg.type) >> \o FirmwareToWire(msg)
    ELSE ManticoreHeaderToWire(IsRequest(msg.type), ManticoreType(msg.type))
           \o ManticoreToWire(msg)

\* The frame the device builds around `body`; delta is added to the checksum.
DeviceEncode(content, body, delta) ==
    HeaderToWire([content |-> content,
                  content_len |-> Len(body),
                  checksum |-> (compute_checksum(content, Len(body),
                                   Buffer(Zeros(HEADER_LEN) \o body, 0,
                                          HEADER_LEN + Len(body)),
                                   HEADER_LEN) + delta) % U16])
      \o body

\* data[i] of an image file: a fixed pattern that depends on the file.
FileByte(name, i) == (IF name = "a" THEN 255 - (i % 7) ELSE 3 * i + 1) % 256

WireBytes == {0, 255}
WireData == UNION {[1..n -> WireBytes] : n \in 0..MaxWireData}

WireRequests ==
    {[type |-> "InactiveSegmentsInfoRequest"]}
      \cup {[type |-> "UpdatePrepareRequest", segment_and_location |-> s] :
               s \in SegmentAndLocation}
      \cup {[type |-> "WriteChunkRequest", segment_and_location |-> s,
             offset |-> o, data |-> d] :
               s \in {"RoA", "RwB"}, o \in {0, 50000}, d \in WireData}
      \cup {[type |-> "WriteChunkRequest", segment_and_location |-> "RoB",
             offset |-> 0,
             data |-> [i \in 1..n |-> FileByte("a", i)]] :
               n \in {SPI_MAX_WRITE - HEADER_LEN - 6, SPI_MAX_WRITE - HEADER_LEN - 5}}
      \cup {[type |-> "RebootRequest", time |-> 0]}
      \cup {[type |-> "DeviceInfoRequest", index |-> 0]}
      \cup {[type |-> "FirmwareVersionRequest", index |-> i] : i \in 0..2}

WireResponses ==
    {[type |-> "InactiveSegmentsInfoResponse",
      ro |-> [identifier |-> "RoB", size |-> 2 ^ 16],
      rw |-> [identifier |-> "RwA", size |-> 2 ^ 16]]}
      \cup {[type |-> "UpdatePrepareResponse", segment_and_location |-> "RoB",
             max_chunk_length |-> m, result |-> r] :
               m \in {0, SPI_MAX_WRITE}, r \in {"Success", "Busy"}}
      \cup {[type |-> "WriteChunkResponse", segment_and_location |-> "RwA",
             offset |-> o, result |-> r] :
               o \in {0, 50000}, r \in {"Success", "Rejected"}}
      \cup {[type |-> "RebootResponse", time |-> 0]}
      \cup {[type |-> "DeviceInfoResponse", info |-> << 1, 2 >>]}
      \cup {[type |-> "FirmwareVersionResponse", version |-> << 49, 46, 48 >>]}

WInit ==
    /\ SessIdle /\ TmpIdle
    /\ wmsg \in WireRequests \cup WireResponses
    /\ wframe = << >> /\ wrx = EmptyWindow /\ wout = Failed("idle")
    /\ wop = "init" /\ wbit = -1

\* The tool encodes a request (send_firmware / send_manticore hand serialize
\* a zeroed buffer of SPI_MAX_WRITE bytes).
WSerialize ==
    /\ wop = "init" /\ IsRequest(wmsg.type)
    /\ LET ser == IF IsFirmware(wmsg.type)
                  THEN firmware_serialize(wmsg, SPI_MAX_WRITE)
                  ELSE manticore_serialize(wmsg, SPI_MAX_WRITE)
       IN  /\ wframe' = ser.frame
           /\ wop' = IF ser.fault = "none" THEN "encoded" ELSE ser.fault
    /\ UNCHANGED << sessVars, tmpVars, wmsg, wrx, wout, wbit >>

\* The device encodes a response.
WDeviceEncode ==
    /\ wop = "init" /\ ~IsRequest(wmsg.type)
    /\ wframe' = DeviceEncode(FamilyContent(wmsg.type), BodyBytes(wmsg), 0)
    /\ wop' = "encoded"
    /\ UNCHANGED << sessVars, tmpVars, wmsg, wrx, wout, wbit >>

\* deserialize as the call site of the exchange invokes it on a window.
Deserialize(window, type) ==
    IF IsFirmware(type)
    THEN firmware_deserialize(window, ResponseType(type))
    ELSE manticore_deserialize(window, ResponseType(type))

WindowPads == {0, 255}

\* The frame comes back unchanged in a window of SPI_MAX_READ bytes.
WDecode ==
    /\ wop = "encoded"
    /\ \E pad \in WindowPads :
         /\ wrx' = Buffer(wframe, pad, SPI_MAX_READ)
         /\ wout' = Deserialize(wrx', wmsg.type)
    /\ wop' = "decoded"
    /\ UNCHANGED << sessVars, tmpVars, wmsg, wframe, wbit >>

\* Byte b with bit k (0..7) flipped.
FlipByte(b, k) == IF (b \div (2 ^ k)) % 2 = 1 THEN b - 2 ^ k ELSE b + 2 ^ k
\* Frame f with bit number n flipped; bit n lies in byte (n \div 8) + 1.
FlipBit(f, n) == [f EXCEPT ![(n \div 8) + 1] = FlipByte(f[(n \div 8) + 1], n % 8)]

\* The frame comes back with one bit flipped.
WFlip ==
    /\ wop = "encoded"
    /\ \E n \in 0..(8 * Len(wframe) - 1), pad \in WindowPads :
         /\ wrx' = Buffer(FlipBit(wframe, n), pad, SPI_MAX_READ)
         /\ wout' = Deserialize(wrx', wmsg.type)
         /\ wbit' = n
    /\ wop' = "flipped"
    /\ UNCHANGED << sessVars, tmpVars, wmsg, wframe >>

\* The frame comes back with another envelope header: any content type, a
\* content length near the true one or past the window, and a checksum that
\* is right for that header, off by one, zero, or the original one.
WTamper ==
    /\ wop = "encoded"
    /\ \E content \in ContentTypeValues,
          content_len \in {0, Len(wframe) - HEADER_LEN - 1, Len(wframe) - HEADER_LEN,
                           Len(wframe) - HEADER_LEN + 1, SPI_MAX_READ},
          k \in 0..3 :
         LET body == Slice(wframe, HEADER_LEN + 1, Len(wframe))
             right == compute_checksum(content, content_len,
                                       Buffer(Zeros(HEADER_LEN) \o body, 0, SPI_MAX_READ),
                                       HEADER_LEN)
             checksum == CASE k = 0 -> right
                           [] k = 1 -> (right + 1) % U16
                           [] k = 2 -> 0
                           [] k = 3 -> RdU16(wframe, 4)
         IN  /\ content_len >= 0
             /\ wrx' = Buffer(HeaderToWire([content |-> content,
                                            content_len |-> content_len,
                                            checksum |-> checksum]) \o body,
                              0, SPI_MAX_READ)
             /\ wout' = Deserialize(wrx', wmsg.type)
    /\ wop' = "tampered"
    /\ UNCHANGED << sessVars, tmpVars, wmsg, wframe, wbit >>

\* A byte that is no content type of the envelope and no command of either
\* family.
UnknownTag == 9

\* The length of the sub-header of a family, whose last byte is the command.
SubHeaderLen(type) == IF IsFirmware(type) THEN 1 ELSE 2

\* A command of the family of `type` other than its own.
WrongCommand(type) ==
    IF IsFirmware(type)
    THEN IF FirmwareType(type) = FirmwareCommand.Reboot
         THEN FirmwareCommand.WriteChunk ELSE FirmwareCommand.Reboot
    ELSE IF ManticoreType(type) = ManticoreCommand.DeviceInfo
         THEN ManticoreCommand.FirmwareVersion ELSE ManticoreCommand.DeviceInfo

\* The device answers with a frame put together field by field around the
\* bytes of response wmsg: any content type or none, a checksum right or off
\* by one, the command of wmsg, another command or none, either direction
\* flag (query family), and the message bytes whole or left out.
WCompose ==
    /\ wop = "encoded" /\ ~IsRequest(wmsg.type)
    /\ \E content \in ContentTypeValues \cup {UnknownTag},
          delta \in {0, 1},
          command \in {IF IsFirmware(wmsg.type) THEN FirmwareType(wmsg.type)
                       ELSE ManticoreType(wmsg.type),
                       WrongCommand(wmsg.type), UnknownTag},
          is_request \in BOOLEAN,
          whole \in BOOLEAN :
         LET b0 == BodyBytes(wmsg)
             sub == IF IsFirmware(wmsg.type) THEN << command >>
                    ELSE ManticoreHeaderToWire(is_request, command)
             rest == IF whole
                     THEN SubSeq(b0, SubHeaderLen(wmsg.type) + 1, Len(b0))
                     ELSE << >>
         IN  /\ IsFirmware(wmsg.type) => ~is_request
             /\ wrx' = Buffer(DeviceEncode(content, sub \o rest, delta), 0, SPI_MAX_READ)
             /\ wout' = Deserialize(wrx', wmsg.type)
    /\ wop' = "composed"
    /\ UNCHANGED << sessVars, tmpVars, wmsg, wframe, wbit >>

WNext == WSerialize \/ WDeviceEncode \/ WDecode \/ WFlip \/ WTamper \/ WCompose

SpecWire == WInit /\ [][WNext]_vars

(***************************************************************************)
(* One invocation of the tool: Device of main.rs                            *)
(***************************************************************************)
Commands == {"device_info", "fw_info", "inactive_segments_info",
             "ro_update", "rw_update", "reboot"}

\* The image files given on the command line: small ones, and the pair of
\* the update scenario of the design document.
ScenarioFiles == [a |-> 40000, b |-> 50000]
FilePairs ==
    {[a |-> x, b |-> y] : x \in 0..MaxImageLen, y \in 0..MaxImageLen}
      \cup {ScenarioFiles}

\* Slot capacities the device may report.
SlotSizes == {MaxImageLen - 1, 2 ^ 16}

\* The largest data length of a WriteChunkRequest that fits the send buffer:
\* envelope header, sub-header, segment (1) and offset (4) come before it.
MaxFittingChunk == SPI_MAX_WRITE - HEADER_LEN - 1 - 1 - 4

\* max_chunk_length values the device may grant for an image of length len.
ChunkLens(len) ==
    IF len <= MaxImageLen
    THEN 0..MaxChunkLen \cup {SPI_MAX_WRITE}
    ELSE {0, MaxFittingChunk, MaxFittingChunk + 1, SPI_MAX_WRITE}

\* What a mailbox write records in the history.
Summary(msg) ==
    CASE msg.type = "WriteChunkRequest" ->
           [type |-> msg.type, segment_and_location |-> msg.segment_and_location,
            offset |-> msg.offset, len |-> Len(msg.data)]
      [] msg.type = "UpdatePrepareRequest" ->
           [type |-> msg.type, segment_and_location |-> msg.segment_and_location,
            offset |-> 0, len |-> 0]
      [] OTHER ->
           [type |-> msg.type, segment_and_location |-> "None", offset |-> 0, len |-> 0]

WriteEv(msg, frame, address) ==
    [ev |-> "write", req |-> Summary(msg), frame_len |-> Len(frame),
     content_len |-> RdU16(frame, 2), address |-> address]
ReadEv(out, address, length) ==
    [ev |-> "read", fault |-> out.fault, msg |-> out.msg,
     address |-> address, length |-> length]

(***************************************************************************)
(* The transports: spi::haventool::Instance and spi::device::Instance.     *)
(* A call yields [err, calls]: the spi::Error it returns ("none" for Ok)    *)
(* and the invocations of the external tool it made.                        *)
(***************************************************************************)
HaventoolWriteOutcomes == {"ok", "TempFileWrite", "Launch", "NonZeroExit"}
HaventoolReadOutcomes == {"ok", "Launch", "NonZeroExit", "TempFileOpen", "TempFileRead"}
DeviceOutcomes == {"ok", "Open", "Seek", "Io"}

\* Mutant of execute: its failures are reported as DeviceError.
execute_device_error(outcome) ==
    IF outcome \in {"Launch", "NonZeroExit"} THEN "DeviceError" ELSE "none"

\* spi::haventool::Instance::execute(args)
execute(outcome) ==
    IF outcome \in {"Launch", "NonZeroExit"} THEN "OperationFailed" ELSE "none"

\* One invocation of the tool: the subcommand, --start, --length (the length
\* of the temp file for raw), and how it ended.
Invocation(op, address, length, outcome) ==
    [op |-> op, address |-> address, length |-> length,
     status |-> IF outcome \in {"Launch", "NonZeroExit"} THEN outcome ELSE "ok"]

\* spi::haventool::Instance::raw(data)
haventool_raw(data_len, outcome) ==
    IF outcome = "TempFileWrite"
    THEN [err |-> "DeviceError", calls |-> << >>]
    ELSE [err |-> execute(outcome),
          calls |-> << Invocation("raw", -1, data_len, outcome) >>]

\* spi::haventool::Instance::enter_4b: the header is the opcode alone.
haventool_enter_4b(outcome) == haventool_raw(1, outcome)

\* Mutant of haventool_new: init is not called.
haventool_new_no_init(outcome) == [err |-> "none", calls |-> << >>]

\* spi::haventool::Instance::new(tool_path): init()?, that is enter_4b()?
haventool_new(outcome) == haventool_enter_4b(outcome)

\* spi::haventool::Instance::write(address, data)
haventool_write(address, data_len, outcome) ==
    IF outcome = "TempFileWrite"
    THEN [err |-> "DeviceError", calls |-> << >>]
    ELSE [err |-> execute(outcome),
          calls |-> << Invocation("write", address, data_len, outcome) >>]

\* spi::haventool::Instance::read(address, buf)
haventool_read(address, len, outcome) ==
    [err |-> IF execute(outcome) # "none" THEN execute(outcome)
             ELSE IF outcome \in {"TempFileOpen", "TempFileRead"} THEN "DeviceError"
             ELSE "none",
     calls |-> << Invocation("read", address, len, outcome) >>]

\* spi::device::Instance::write(address, data)
device_write(address, data_len, outcome) ==
    [err |-> IF outcome = "ok" THEN "none" ELSE "DeviceError", calls |-> << >>]

\* spi::device::Instance::read(address, buf)
device_read(address, len, outcome) ==
    [err |-> IF outcome = "ok" THEN "none" ELSE "DeviceError", calls |-> << >>]

\* self.spi.write / self.spi.read: the call through the Interface.
WriteOutcomes == IF spi = "haventool" THEN HaventoolWriteOutcomes ELSE DeviceOutcomes
ReadOutcomes == IF spi = "haventool" THEN HaventoolReadOutcomes ELSE DeviceOutcomes
spi_write(address, data_len, outcome) ==
    IF spi = "haventool" THEN haventool_write(address, data_len, outcome)
    ELSE device_write(address, data_len, outcome)
spi_read(address, len, outcome) ==
    IF spi = "haventool" THEN haventool_read(address, len, outcome)
    ELSE device_read(address, len, outcome)

\* --mailbox_addr values on the command line.
MailboxArgs == {"default", "explicit", "bad"}
ExplicitMailboxAddr == 16 ^ 3

Init ==
    /\ WireIdle /\ TmpIdle
    /\ cmd \in Commands
    /\ haventool_arg \in BOOLEAN /\ spidevice_arg \in BOOLEAN
    /\ mailbox_arg \in MailboxArgs
    /\ spi = "none" /\ mailbox_addr = -1 /\ tool = << >> /\ spi_err = "none"
    /\ files \in FilePairs
    /\ (cmd \notin {"ro_update", "rw_update"} => files = [a |-> 0, b |-> 0])
    /\ pc = "main"
    /\ inactive = NoSegment /\ file_name = "none" /\ file_len = 0
    /\ max_chunk_length = 0 /\ pos = 0
    /\ mailbox = << >> /\ rx = EmptyWindow /\ resp = Failed("idle")
    /\ fault = "none" /\ trace = << >>

\* A panic: the invocation ends here.
Panic(why) == pc' = "failed" /\ fault' = why

\* Mutant of write_mailbox: the frame is written at address 0, not at
\* self.mailbox_addr.
write_mailbox_at_zero(msg, frame, next) ==
    \E outcome \in WriteOutcomes :
       LET r == spi_write(0, Len(frame), outcome)
       IN  /\ tool' = tool \o r.calls
           /\ spi_err' = r.err
           /\ IF r.err = "none"
              THEN /\ mailbox' = frame
                   /\ trace' = Append(trace, WriteEv(msg, frame, 0))
                   /\ pc' = next
                   /\ UNCHANGED fault
              ELSE /\ Panic("MailboxWrite")
                   /\ trace' = Append(trace, [ev |-> "write_failed", address |-> 0])
                   /\ UNCHANGED mailbox

\* Mutant of write_mailbox: a failed write is tried again.
write_mailbox_retry(msg, frame, next) ==
    \E outcome \in WriteOutcomes :
       LET r == spi_write(mailbox_addr, Len(frame), outcome)
       IN  /\ tool' = tool \o r.calls
           /\ spi_err' = r.err
           /\ IF r.err = "none"
              THEN /\ mailbox' = frame
                   /\ trace' = Append(trace, WriteEv(msg, frame, mailbox_addr))
                   /\ pc' = next
                   /\ UNCHANGED fault
              ELSE /\ Len(trace) < 4
                   /\ trace' = Append(trace, [ev |-> "write_failed",
                                              address |-> mailbox_addr])
                   /\ UNCHANGED << mailbox, pc, fault >>

\* Device::write_mailbox(data): spi.write(..).expect(..); the transport may
\* fail.  On success the invocation goes on at `next`.
write_mailbox(msg, frame, next) ==
    \E outcome \in WriteOutcomes :
       LET r == spi_write(mailbox_addr, Len(frame), outcome)
       IN  /\ tool' = tool \o r.calls
           /\ spi_err' = r.err
           /\ IF r.err = "none"
              THEN /\ mailbox' = frame
                   /\ trace' = Append(trace, WriteEv(msg, frame, mailbox_addr))
                   /\ pc' = next
                   /\ UNCHANGED fault
              ELSE /\ Panic("MailboxWrite")
                   /\ trace' = Append(trace, [ev |-> "write_failed",
                                              address |-> mailbox_addr])
                   /\ UNCHANGED mailbox

\* Device::send_firmware(msg)
send_firmware(msg, next) ==
    LET send_buf == firmware_serialize(msg, SPI_MAX_WRITE)
    IN  IF send_buf.fault # "none"
        THEN Panic(send_buf.fault) /\ UNCHANGED << mailbox, trace, tool, spi_err >>
        ELSE write_mailbox(msg, send_buf.frame, next)

\* Device::send_manticore(msg)
send_manticore(msg, next) ==
    LET send_buf == manticore_serialize(msg, SPI_MAX_WRITE)
    IN  IF send_buf.fault # "none"
        THEN Panic(send_buf.fault) /\ UNCHANGED << mailbox, trace, tool, spi_err >>
        ELSE write_mailbox(msg, send_buf.frame, next)

\* Device::read_mailbox() failing: spi.read(..).expect(..) panics.
read_mailbox_failed ==
    \E outcome \in ReadOutcomes \ {"ok"} :
       LET r == spi_read(mailbox_addr, SPI_MAX_READ, outcome)
       IN  /\ tool' = tool \o r.calls
           /\ spi_err' = r.err
           /\ Panic("MailboxRead")
           /\ trace' = Append(trace, [ev |-> "read_failed", address |-> mailbox_addr,
                                      length |-> SPI_MAX_READ])
           /\ UNCHANGED << rx, resp >>

(***************************************************************************)
(* The device: what a read of the mailbox may return after a request        *)
(***************************************************************************)
OtherFamily(content) ==
    IF content = ContentType.Firmware THEN ContentType.Manticore
    ELSE ContentType.Firmware

\* Frames that are not a well-formed response of the expected type, built
\* around a well-formed body b0 with envelope content type `content`.
BadFrames(content, b0) ==
    { DeviceEncode(content, b0, 1),                    \* wrong checksum
      DeviceEncode(ContentType.Error, << 0 >>, 0),     \* device-reported error
      DeviceEncode(ContentType.Error, << 9 >>, 0),     \* error, unknown code
      DeviceEncode(ContentType.Error, << 0 >>, 1),     \* error, wrong checksum
      DeviceEncode(OtherFamily(content), b0, 0),       \* the other family
      DeviceEncode(OtherFamily(content), b0, 1),
      << 7 >> \o Tail(DeviceEncode(content, b0, 0)),   \* no content type
      DeviceEncode(content, SubSeq(b0, 1, 1), 0) }     \* cut short

FirmwareReplies(msgs) ==
    LET b0 == BodyBytes(CHOOSE m \in msgs : TRUE)
        wrong == IF b0[1] = FirmwareCommand.Reboot
                 THEN FirmwareCommand.WriteChunk ELSE FirmwareCommand.Reboot
    IN  {DeviceEncode(ContentType.Firmware, BodyBytes(m), 0) : m \in msgs}
          \cup BadFrames(ContentType.Firmware, b0)
          \cup {DeviceEncode(ContentType.Firmware, << wrong >> \o Tail(b0), 0)}

ManticoreReplies(msgs) ==
    LET b0 == BodyBytes(CHOOSE m \in msgs : TRUE)
        wrong == IF b0[2] = ManticoreCommand.DeviceInfo
                 THEN ManticoreCommand.FirmwareVersion ELSE ManticoreCommand.DeviceInfo
    IN  {DeviceEncode(ContentType.Manticore, BodyBytes(m), 0) : m \in msgs}
          \cup BadFrames(ContentType.Manticore, b0)
          \cup {DeviceEncode(ContentType.Manticore, << b0[1], wrong >> \o Tail(Tail(b0)), 0),
                DeviceEncode(ContentType.Manticore, << 1 >> \o Tail(b0), 0)}

Windows(frames) == {Buffer(f, 0, SPI_MAX_READ) : f \in frames}

OtherSegment(s) == IF s = "RoA" THEN "RwB" ELSE "RoA"

SegmentInfos == [identifier : SegmentAndLocation, size : SlotSizes]
DiscoveryResponses(region) ==
    IF region = "ro"
    THEN {[type |-> "InactiveSegmentsInfoResponse", ro |-> si,
           rw |-> [identifier |-> "RwA", size |-> 2 ^ 16]] : si \in SegmentInfos}
    ELSE {[type |-> "InactiveSegmentsInfoResponse", rw |-> si,
           ro |-> [identifier |-> "RoA", size |-> 2 ^ 16]] : si \in SegmentInfos}

PrepareResponses(seg, len) ==
    {[type |-> "UpdatePrepareResponse", segment_and_location |-> s,
      max_chunk_length |-> m, result |-> r] :
        s \in {seg, OtherSegment(seg)}, m \in ChunkLens(len), r \in {"Success", "Busy"}}

ChunkResponses(seg, offset) ==
    {[type |-> "WriteChunkResponse", segment_and_location |-> s,
      offset |-> o, result |-> r] :
        s \in {seg, OtherSegment(seg)}, o \in {offset, offset + 1},
        r \in {"Success", "Rejected"}}

(***************************************************************************)
(* The exchanges of Device                                                  *)
(***************************************************************************)
updVars == << inactive, file_name, file_len, max_chunk_length, pos >>
inputVars == << cmd, files, haventool_arg, spidevice_arg, mailbox_arg >>
connVars == << spi, mailbox_addr >>

\* A window was read and handed to deserialize, which yielded `out`.
Received(w, out) ==
    /\ rx' = w
    /\ resp' = out
    /\ trace' = Append(trace, ReadEv(out, mailbox_addr, SPI_MAX_READ))
    /\ tool' = tool \o spi_read(mailbox_addr, SPI_MAX_READ, "ok").calls
    /\ UNCHANGED spi_err

\* main: Device::new(spi, mailbox_addr) with the parsed --mailbox_addr, whose
\* default depends on the transport option given.
Device_new(interface) ==
    /\ spi' = interface
    /\ IF mailbox_arg = "bad"
       THEN Panic("MailboxAddrParse") /\ UNCHANGED mailbox_addr
       ELSE /\ mailbox_addr' = (IF mailbox_arg = "explicit" THEN ExplicitMailboxAddr
                                ELSE IF haventool_arg THEN HAVENTOOL_DEFAULT_MAILBOX_ADDR
                                ELSE 0)
            /\ pc' = "start"
            /\ UNCHANGED fault

\* main: the choice of the transport and the construction of Device.
main_connect ==
    /\ pc = "main"
    /\ IF haventool_arg
       THEN \E outcome \in HaventoolWriteOutcomes :
              LET r == haventool_new(outcome)
              IN  /\ tool' = r.calls
                  /\ spi_err' = r.err
                  /\ IF r.err # "none"
                     THEN Panic("HaventoolInstantiate") /\ UNCHANGED connVars
                     ELSE Device_new("haventool")
       ELSE IF spidevice_arg
       THEN Device_new("spidevice") /\ UNCHANGED << tool, spi_err >>
       ELSE Panic("NoSpiInterface") /\ UNCHANGED << connVars, tool, spi_err >>
    /\ UNCHANGED << inputVars, updVars, mailbox, rx, resp, trace, wireVars, tmpVars >>

\* Device::device_info, up to the mailbox write.
device_info_send ==
    /\ cmd = "device_info" /\ pc = "start"
    /\ send_manticore([type |-> "DeviceInfoRequest", index |-> 0], "device_info_read")
    /\ UNCHANGED << inputVars, connVars, updVars, rx, resp, wireVars, tmpVars >>

\* Device::device_info, from the mailbox read on.
device_info_recv ==
    /\ pc = "device_info_read"
    /\ \/ read_mailbox_failed
       \/ \E w \in Windows(ManticoreReplies(
                     {[type |-> "DeviceInfoResponse", info |-> << 1, 2 >>]})) :
            LET out == manticore_deserialize(w, "DeviceInfoResponse")
            IN  /\ Received(w, out)
                /\ IF out.fault # "none" THEN Panic(out.fault)
                   ELSE pc' = "done" /\ UNCHANGED fault
    /\ UNCHANGED << inputVars, connVars, updVars, mailbox, wireVars, tmpVars >>

\* Device::fw_info(index), up to the mailbox write.
fw_info_send ==
    /\ cmd = "fw_info" /\ pc = "start"
    /\ \E index \in 0..3 :
         send_manticore([type |-> "FirmwareVersionRequest", index |-> index],
                        "fw_info_read")
    /\ UNCHANGED << inputVars, connVars, updVars, rx, resp, wireVars, tmpVars >>

\* Device::fw_info(index), from the mailbox read on.
fw_info_recv ==
    /\ pc = "fw_info_read"
    /\ \/ read_mailbox_failed
       \/ \E w \in Windows(ManticoreReplies(
                     {[type |-> "FirmwareVersionResponse", version |-> << 49, 46, 48 >>]})) :
            LET out == manticore_deserialize(w, "FirmwareVersionResponse")
            IN  /\ Received(w, out)
                /\ IF out.fault # "none" THEN Panic(out.fault)
                   ELSE pc' = "done" /\ UNCHANGED fault
    /\ UNCHANGED << inputVars, connVars, updVars, mailbox, wireVars, tmpVars >>

\* Device::inactive_segments_info, up to the mailbox write.
inactive_segments_info_send ==
    /\ cmd = "inactive_segments_info" /\ pc = "start"
    /\ send_firmware([type |-> "InactiveSegmentsInfoRequest"], "info_read")
    /\ UNCHANGED << inputVars, connVars, updVars, rx, resp, wireVars, tmpVars >>

\* Device::inactive_segments_info, from the mailbox read on.
inactive_segments_info_recv ==
    /\ pc = "info_read"
    /\ \/ read_mailbox_failed
       \/ \E w \in Windows(FirmwareReplies(DiscoveryResponses("ro"))) :
            LET out == firmware_deserialize(w, "InactiveSegmentsInfoResponse")
            IN  /\ Received(w, out)
                /\ IF out.fault # "none" THEN Panic(out.fault)
                   ELSE pc' = "done" /\ UNCHANGED fault
    /\ UNCHANGED << inputVars, connVars, updVars, mailbox, wireVars, tmpVars >>

\* Device::reboot, up to the mailbox write.
reboot_send ==
    /\ cmd = "reboot" /\ pc = "start"
    /\ send_firmware([type |-> "RebootRequest", time |-> 0], "reboot_read")
    /\ UNCHANGED << inputVars, connVars, updVars, rx, resp, wireVars, tmpVars >>

\* Device::reboot, from the mailbox read on.
reboot_recv ==
    /\ pc = "reboot_read"
    /\ \/ read_mailbox_failed
       \/ \E w \in Windows(FirmwareReplies({[type |-> "RebootResponse", time |-> 0]})) :
            LET out == firmware_deserialize(w, "RebootResponse")
            IN  /\ Received(w, out)
                /\ IF out.fault # "none" THEN Panic(out.fault)
                   ELSE pc' = "done" /\ UNCHANGED fault
    /\ UNCHANGED << inputVars, connVars, updVars, mailbox, wireVars, tmpVars >>

(***************************************************************************)
(* The update workflow: ro_update / rw_update and fw_update                 *)
(***************************************************************************)
\* Mutant of fw_update_open: the length of the image is not compared with
\* the capacity of the slot.
fw_update_open_no_guard(segment, name) ==
    /\ file_name' = name
    /\ file_len' = files[name]
    /\ pc' = "prepare" /\ UNCHANGED fault

\* Mutant of fw_update_open: an image that fills the slot exactly is rejected.
fw_update_open_ge(segment, name) ==
    /\ file_name' = name
    /\ file_len' = files[name]
    /\ IF files[name] >= segment.size
       THEN Panic("FileTooLarge")
       ELSE pc' = "prepare" /\ UNCHANGED fault

\* fw_update(segment, file_name), up to the call of firmware_update_prepare:
\* the file is read and its length compared with the capacity of the slot.
fw_update_open(segment, name) ==
    /\ file_name' = name
    /\ file_len' = files[name]
    /\ IF files[name] > segment.size
       THEN Panic("FileTooLarge")
       ELSE pc' = "prepare" /\ UNCHANGED fault

\* Mutant of ro_file: the two files are swapped.
ro_file_swapped(identifier) ==
    CASE identifier = "RoA" -> "b"
      [] identifier = "RoB" -> "a"
      [] OTHER -> "none"

\* ro_update: the file for the inactive RO segment; "none" is the panic on
\* any other identifier.
ro_file(identifier) ==
    CASE identifier = "RoA" -> "a"
      [] identifier = "RoB" -> "b"
      [] OTHER -> "none"

\* Mutant of rw_file: any other identifier takes the A file.
rw_file_any(identifier) ==
    CASE identifier = "RwB" -> "b"
      [] OTHER -> "a"

\* rw_update: the file for the inactive RW segment; "none" is the panic on
\* any other identifier.
rw_file(identifier) ==
    CASE identifier = "RwA" -> "a"
      [] identifier = "RwB" -> "b"
      [] OTHER -> "none"

\* ro_update: firmware_get_inactive_ro, up to the mailbox write.
ro_update_send ==
    /\ cmd = "ro_update" /\ pc = "start"
    /\ send_firmware([type |-> "InactiveSegmentsInfoRequest"], "ro_discover")
    /\ UNCHANGED << inputVars, connVars, updVars, rx, resp, wireVars, tmpVars >>

\* ro_update: firmware_get_inactive_ro from the mailbox read on, the choice
\* of the file and the start of fw_update.
ro_update_select ==
    /\ pc = "ro_discover"
    /\ \/ read_mailbox_failed /\ UNCHANGED << inactive, file_name, file_len >>
       \/ \E w \in Windows(FirmwareReplies(DiscoveryResponses("ro"))) :
            LET out == firmware_deserialize(w, "InactiveSegmentsInfoResponse")
            IN  /\ Received(w, out)
                /\ IF out.fault # "none"
                   THEN Panic(out.fault) /\ UNCHANGED << inactive, file_name, file_len >>
                   ELSE /\ inactive' = out.msg.ro
                        /\ IF ro_file(out.msg.ro.identifier) = "none"
                           THEN /\ Panic("UnexpectedSegment")
                                /\ UNCHANGED << file_name, file_len >>
                           ELSE fw_update_open(out.msg.ro,
                                               ro_file(out.msg.ro.identifier))
    /\ UNCHANGED << inputVars, connVars, max_chunk_length, pos, mailbox, wireVars, tmpVars >>

\* rw_update: firmware_get_inactive_rw, up to the mailbox write.
rw_update_send ==
    /\ cmd = "rw_update" /\ pc = "start"
    /\ send_firmware([type |-> "InactiveSegmentsInfoRequest"], "rw_discover")
    /\ UNCHANGED << inputVars, connVars, updVars, rx, resp, wireVars, tmpVars >>

\* rw_update: firmware_get_inactive_rw from the mailbox read on, the choice
\* of the file and the start of fw_update.
rw_update_select ==
    /\ pc = "rw_discover"
    /\ \/ read_mailbox_failed /\ UNCHANGED << inactive, file_name, file_len >>
       \/ \E w \in Windows(FirmwareReplies(DiscoveryResponses("rw"))) :
            LET out == firmware_deserialize(w, "InactiveSegmentsInfoResponse")
            IN  /\ Received(w, out)
                /\ IF out.fault # "none"
                   THEN Panic(out.fault) /\ UNCHANGED << inactive, file_name, file_len >>
                   ELSE /\ inactive' = out.msg.rw
                        /\ IF rw_file(out.msg.rw.identifier) = "none"
                           THEN /\ Panic("UnexpectedSegment")
                                /\ UNCHANGED << file_name, file_len >>
                           ELSE fw_update_open(out.msg.rw,
                                               rw_file(out.msg.rw.identifier))
    /\ UNCHANGED << inputVars, connVars, max_chunk_length, pos, mailbox, wireVars, tmpVars >>

\* firmware_update_prepare(segment_and_location), up to the mailbox write.
firmware_update_prepare_send ==
    /\ pc = "prepare"
    /\ send_firmware([type |-> "UpdatePrepareRequest",
                      segment_and_location |-> inactive.identifier], "prepare_read")
    /\ UNCHANGED << inputVars, connVars, updVars, rx, resp, wireVars, tmpVars >>

\* Mutant of PrepareCheck: the result code is not looked at.
PrepareCheck_no_result(msg, segment_and_location) ==
    IF msg.segment_and_location # segment_and_location THEN "PrepareSegmentAndLocation"
    ELSE "none"

\* The checks firmware_update_prepare makes on the decoded response:
\* "none", or the panic.
PrepareCheck(msg, segment_and_location) ==
    IF msg.segment_and_location # segment_and_location THEN "PrepareSegmentAndLocation"
    ELSE IF msg.result # "Success" THEN "PrepareResult"
    ELSE "none"

\* firmware_update_prepare from the mailbox read on; fw_update then sets
\* the cursor to 0.
firmware_update_prepare_recv ==
    /\ pc = "prepare_read"
    /\ \/ read_mailbox_failed /\ UNCHANGED << max_chunk_length, pos >>
       \/ \E w \in Windows(FirmwareReplies(
                     PrepareResponses(inactive.identifier, file_len))) :
            LET out == firmware_deserialize(w, "UpdatePrepareResponse")
            IN  /\ Received(w, out)
                /\ IF out.fault # "none"
                   THEN Panic(out.fault) /\ UNCHANGED << max_chunk_length, pos >>
                   ELSE IF PrepareCheck(out.msg, inactive.identifier) # "none"
                   THEN /\ Panic(PrepareCheck(out.msg, inactive.identifier))
                        /\ UNCHANGED << max_chunk_length, pos >>
                   ELSE /\ max_chunk_length' = out.msg.max_chunk_length
                        /\ pos' = 0
                        /\ pc' = "loop"
                        /\ UNCHANGED fault
    /\ UNCHANGED << inputVars, connVars, inactive, file_name, file_len, mailbox,
                    wireVars, tmpVars >>

\* fw_update: data.len() as u32.  Past the capacity guard the length is at
\* most segment.size, a u32, so the cast changes nothing.
data_len == file_len

\* fw_update: min(max_chunk_length as u32, data_len - pos) as u16
chunk_len == Min(max_chunk_length, data_len - pos) % U16

\* fw_update: &data[pos as usize..end_pos]
ChunkData == [i \in 1..chunk_len |-> FileByte(file_name, pos + i - 1)]

\* Mutant of fw_update_loop: the chunk length is compared with 0 before the
\* cursor is compared with the length of the image.
fw_update_loop_check_before_test ==
    /\ pc = "loop"
    /\ IF chunk_len = 0
       THEN Panic("InvalidChunkLen") /\ UNCHANGED << mailbox, trace, tool, spi_err >>
       ELSE IF pos < data_len
            THEN send_firmware([type |-> "WriteChunkRequest",
                                segment_and_location |-> inactive.identifier,
                                offset |-> pos,
                                data |-> ChunkData], "chunk_read")
            ELSE pc' = "done" /\ UNCHANGED << fault, mailbox, trace, tool, spi_err >>
    /\ UNCHANGED << inputVars, connVars, updVars, rx, resp, wireVars, tmpVars >>

\* Mutant of fw_update_loop: the chunk length is not compared with 0.
fw_update_loop_no_zero_check ==
    /\ pc = "loop"
    /\ IF pos < data_len
       THEN send_firmware([type |-> "WriteChunkRequest",
                           segment_and_location |-> inactive.identifier,
                           offset |-> pos,
                           data |-> ChunkData], "chunk_read")
       ELSE pc' = "done" /\ UNCHANGED << fault, mailbox, trace, tool, spi_err >>
    /\ UNCHANGED << inputVars, connVars, updVars, rx, resp, wireVars, tmpVars >>

\* fw_update: one turn of the while loop up to the mailbox write of
\* firmware_write_chunk, or the end of the loop.
fw_update_loop ==
    /\ pc = "loop"
    /\ IF pos < data_len
       THEN IF chunk_len = 0
            THEN Panic("InvalidChunkLen") /\ UNCHANGED << mailbox, trace, tool, spi_err >>
            ELSE send_firmware([type |-> "WriteChunkRequest",
                                segment_and_location |-> inactive.identifier,
                                offset |-> pos,
                                data |-> ChunkData], "chunk_read")
       ELSE pc' = "done" /\ UNCHANGED << fault, mailbox, trace, tool, spi_err >>
    /\ UNCHANGED << inputVars, connVars, updVars, rx, resp, wireVars, tmpVars >>

\* Mutant of ChunkCheck: the echoed offset is not looked at.
ChunkCheck_no_offset(msg, segment_and_location, offset) ==
    IF msg.segment_and_location # segment_and_location THEN "ChunkSegmentAndLocation"
    ELSE IF msg.result # "Success" THEN "ChunkResult"
    ELSE "none"

\* Mutant of ChunkCheck: the result is looked at before the echoed offset.
ChunkCheck_result_first(msg, segment_and_location, offset) ==
    IF msg.segment_and_location # segment_and_location THEN "ChunkSegmentAndLocation"
    ELSE IF msg.result # "Success" THEN "ChunkResult"
    ELSE IF msg.offset # offset THEN "ChunkOffset"
    ELSE "none"

\* The checks firmware_write_chunk makes on the decoded response: "none",
\* or the panic.
ChunkCheck(msg, segment_and_location, offset) ==
    IF msg.segment_and_location # segment_and_location THEN "ChunkSegmentAndLocation"
    ELSE IF msg.offset # offset THEN "ChunkOffset"
    ELSE IF msg.result # "Success" THEN "ChunkResult"
    ELSE "none"

\* firmware_write_chunk from the mailbox read on; fw_update then advances
\* the cursor.
firmware_write_chunk_recv ==
    /\ pc = "chunk_read"
    /\ \/ read_mailbox_failed /\ UNCHANGED pos
       \/ \E w \in Windows(FirmwareReplies(ChunkResponses(inactive.identifier, pos))) :
            LET out == firmware_deserialize(w, "WriteChunkResponse")
            IN  /\ Received(w, out)
                /\ IF out.fault # "none"
                   THEN Panic(out.fault) /\ UNCHANGED pos
                   ELSE IF ChunkCheck(out.msg, inactive.identifier, pos) # "none"
                   THEN /\ Panic(ChunkCheck(out.msg, inactive.identifier, pos))
                        /\ UNCHANGED pos
                   ELSE /\ pos' = pos + chunk_len
                        /\ pc' = "loop"
                        /\ UNCHANGED fault
    /\ UNCHANGED << inputVars, connVars, inactive, file_name, file_len, max_chunk_length,
                    mailbox, wireVars, tmpVars >>

Next ==
    \/ main_connect
    \/ device_info_send \/ device_info_recv
    \/ fw_info_send \/ fw_info_recv
    \/ inactive_segments_info_send \/ inactive_segments_info_recv
    \/ reboot_send \/ reboot_recv
    \/ ro_update_send \/ ro_update_select
    \/ rw_update_send \/ rw_update_select
    \/ firmware_update_prepare_send \/ firmware_update_prepare_recv
    \/ fw_update_loop \/ firmware_write_chunk_recv

Spec == Init /\ [][Next]_vars

(***************************************************************************)
(* The temp file of spi::haventool::Instance, with one or two users of the  *)
(* transport at work: processes running the tool, or instances in one       *)
(* process.  Each call of raw, write and read is taken step by step: the    *)
(* two halves of fs::write, the run of the external tool, the read-back.    *)
(***************************************************************************)
\* The calls each user makes.
MaxTmpCalls == 1

\* buf.len() of the reads.
ReadBufLen == 2

\* enter_4b: the flash header of Enter4ByteAddressMode, the opcode alone.
Enter4bHeader == << 183 >>

\* The data a user passes to write: its own number, one or three times.
TmpData(u) == {[i \in 1..n |-> u] : n \in {1, 3}}

\* The bytes the tool reads from the device for a read of user u.
DeviceWindow(u) == [i \in 1..ReadBufLen |-> 10 + u]

\* Mutant of tmp_file: each user has a temp file of its own.
tmp_file_per_user(u) == IF u = 1 THEN "/tmp/spitmp.1" ELSE "/tmp/spitmp.2"

\* raw, read, write: let tmp_file = "/tmp/spitmp", whoever calls.
tmp_file(u) == "/tmp/spitmp"

\* A file of contents f after d is written at its start.
Overlay(d, f) == d \o SubSeq(f, Len(d) + 1, Len(f))

\* The entries of tlog.
TmpEv(ev, u, bytes) ==
    [ev |-> ev, user |-> u, op |-> usr[u].op, data |-> usr[u].data,
     length |-> IF usr[u].op = "write" THEN Len(usr[u].data)
                ELSE IF usr[u].op = "read" THEN ReadBufLen ELSE -1,
     bytes |-> bytes]

TInit ==
    /\ SessIdle /\ WireIdle
    /\ owners \in {{1}, Users}
    /\ tmpfs = [p \in TmpPaths |-> << >>]
    /\ usr = [u \in Users |->
                [NoCall EXCEPT !.left = IF u \in owners THEN MaxTmpCalls ELSE 0]]
    /\ tlog = << >>

\* A user calls raw (through enter_4b), write(address, data) or
\* read(address, buf).
TCall ==
    \E u \in owners :
       /\ usr[u].pc = "idle" /\ usr[u].left > 0
       /\ \E op \in {"raw", "write", "read"}, d \in TmpData(u) :
            usr' = [usr EXCEPT ![u] =
                      [pc |-> IF op = "read" THEN "execute" ELSE "create",
                       op |-> op,
                       data |-> IF op = "write" THEN d
                                ELSE IF op = "raw" THEN Enter4bHeader ELSE << >>,
                       got |-> << >>, err |-> "none", left |-> @.left - 1]]
       /\ UNCHANGED << sessVars, wireVars, tmpfs, owners, tlog >>

\* raw / write: fs::write(tmp_file, data), first half: the file is created,
\* or emptied if it exists.
TCreate ==
    \E u \in owners :
       /\ usr[u].pc = "create"
       /\ \E outcome \in {"ok", "TempFileWrite"} :
            IF outcome = "ok"
            THEN /\ tmpfs' = [tmpfs EXCEPT ![tmp_file(u)] = << >>]
                 /\ usr' = [usr EXCEPT ![u].pc = "fill"]
                 /\ tlog' = Append(tlog, TmpEv("truncate", u, << >>))
            ELSE /\ usr' = [usr EXCEPT ![u].pc = "idle", ![u].err = "DeviceError"]
                 /\ UNCHANGED << tmpfs, tlog >>
       /\ UNCHANGED << sessVars, wireVars, owners >>

\* raw / write: fs::write(tmp_file, data), second half: the data are written
\* at the start of the file.
TFill ==
    \E u \in owners :
       /\ usr[u].pc = "fill"
       /\ tmpfs' = [tmpfs EXCEPT ![tmp_file(u)] = Overlay(usr[u].data, @)]
       /\ usr' = [usr EXCEPT ![u].pc = "execute"]
       /\ tlog' = Append(tlog, TmpEv("fill", u, usr[u].data))
       /\ UNCHANGED << sessVars, wireVars, owners >>

\* raw / write / read: self.execute(..).  A tool that runs to its end sends
\* the device what the temp file holds (spi raw, spi write), or fills the temp
\* file with what it read from the device (spi read).
TExecute ==
    \E u \in owners :
       /\ usr[u].pc = "execute"
       /\ \E outcome \in {"ok", "Launch", "NonZeroExit"} :
            IF execute(outcome) # "none"
            THEN /\ usr' = [usr EXCEPT ![u].pc = "idle", ![u].err = execute(outcome)]
                 /\ UNCHANGED << tmpfs, tlog >>
            ELSE IF usr[u].op = "read"
            THEN /\ tmpfs' = [tmpfs EXCEPT ![tmp_file(u)] = DeviceWindow(u)]
                 /\ usr' = [usr EXCEPT ![u].pc = "readback"]
                 /\ tlog' = Append(tlog, TmpEv("invoke", u, DeviceWindow(u)))
            ELSE /\ usr' = [usr EXCEPT ![u].pc = "idle"]
                 /\ tlog' = Append(tlog, TmpEv("invoke", u, tmpfs[tmp_file(u)]))
                 /\ UNCHANGED tmpfs
       /\ UNCHANGED << sessVars, wireVars, owners >>

\* read: fs::File::open(tmp_file), then file.read(buf).
TReadBack ==
    \E u \in owners :
       /\ usr[u].pc = "readback"
       /\ \E outcome \in {"ok", "TempFileOpen", "TempFileRead"} :
            IF outcome = "ok"
            THEN /\ usr' = [usr EXCEPT
                              ![u].pc = "idle",
                              ![u].got = SubSeq(tmpfs[tmp_file(u)], 1,
                                                Min(ReadBufLen, Len(tmpfs[tmp_file(u)])))]
                 /\ tlog' = Append(tlog, TmpEv("readback", u, usr'[u].got))
            ELSE /\ usr' = [usr EXCEPT ![u].pc = "idle", ![u].err = "DeviceError"]
                 /\ UNCHANGED tlog
       /\ UNCHANGED << sessVars, wireVars, tmpfs, owners >>

TNext == TCall \/ TCreate \/ TFill \/ TExecute \/ TReadBack

SpecTmp == TInit /\ [][TNext]_vars

(***************************************************************************)
(* Properties                                                               *)
(***************************************************************************)
IsChunkWrite(e) == e.ev = "write" /\ e.req.type = "WriteChunkRequest"
IsPrepareWrite(e) == e.ev = "write" /\ e.req.type = "UpdatePrepareRequest"
IsRead(e) == e.ev = "read"
\* A response that deserialize returned as a message of type `type`.
IsResponse(e, type) == e.ev = "read" /\ e.fault = "none" /\ e.msg.type = type

\* The chunk-write and update-prepare requests written to the mailbox so far.
ChunkWrites == SelectSeq(trace, IsChunkWrite)
PrepareWrites == SelectSeq(trace, IsPrepareWrite)

Ended == pc \in {"done", "failed"}
LastIsRead == Len(trace) > 0 /\ IsRead(trace[Len(trace)])

\* The endings that a response or the transport causes.
EnvFaults ==
    {"MailboxWrite", "MailboxRead", "HeaderParse", "Bounds", "Checksum",
     "DeviceReportedError", "ErrorHeaderParse", "UnexpectedContentType",
     "SubHeaderParse", "UnexpectedMessageType", "UnexpectedDirection", "BodyParse",
     "PrepareSegmentAndLocation", "PrepareResult",
     "ChunkSegmentAndLocation", "ChunkOffset", "ChunkResult"}

\* update-prepare was answered with the requested segment and Success.
Prepared ==
    \E i \in 2..Len(trace) :
       /\ IsResponse(trace[i], "UpdatePrepareResponse")
       /\ IsPrepareWrite(trace[i - 1])
       /\ trace[i].msg.segment_and_location = trace[i - 1].req.segment_and_location
       /\ trace[i].msg.result = "Success"

CeilDiv(a, b) == (a + b - 1) \div b

\* The chunk writes are ceil(L/C) chunks that partition [0, L): each of
\* length 1..C, all but the last of length C, each starting where the one
\* before ended, the first at 0 and the last ending at L.
Partition(L, C) ==
    LET cw == ChunkWrites
    IN  /\ Len(cw) = CeilDiv(L, C)
        /\ \A i \in 1..Len(cw) :
             /\ cw[i].req.len >= 1 /\ cw[i].req.len <= C
             /\ (i < Len(cw) => cw[i].req.len = C)
             /\ cw[i].req.offset
                  = (IF i = 1 THEN 0 ELSE cw[i - 1].req.offset + cw[i - 1].req.len)
        /\ (Len(cw) > 0 => cw[Len(cw)].req.offset + cw[Len(cw)].req.len = L)
        /\ (Len(cw) = 0 => L = 0)

\* C1 (as claimed): whenever update-prepare succeeded with a max chunk length
\* C >= 1 and the invocation has ended without a bad response or transport
\* failure, it ended in Done and its chunk writes are the ceil(L/C) chunks
\* partitioning [0, L), for every image length L and every C.
C1_ChunkingForEveryChunkLength ==
    (Prepared /\ Ended /\ fault \notin EnvFaults /\ max_chunk_length >= 1)
      => (pc = "done" /\ Partition(file_len, max_chunk_length))

\* The update scenario: ro_update with files of 40000 and 50000 bytes, RoB
\* inactive with capacity 65536, max chunk length 512 granted.
ScenarioRun ==
    /\ cmd = "ro_update" /\ files = ScenarioFiles
    /\ inactive = [identifier |-> "RoB", size |-> 2 ^ 16]
    /\ Prepared /\ max_chunk_length = SPI_MAX_WRITE

\* C2 (as claimed): in the update scenario, once the invocation has ended
\* without a bad response or transport failure, the B file was selected and
\* exactly 98 chunk writes were issued, 97 of length 512 and the last of 336.
C2_ScenarioIssues98Chunks ==
    (ScenarioRun /\ Ended /\ fault \notin EnvFaults)
      => /\ file_name = "b"
         /\ Len(ChunkWrites) = 98
         /\ \A i \in 1..97 : ChunkWrites[i].req.len = SPI_MAX_WRITE
         /\ ChunkWrites[98].req.len = 336

\* C3: an image longer than the capacity of the discovered slot ends the
\* invocation with the file-too-large panic and no chunk write is ever made;
\* an image that is not longer (in particular one that fills the slot
\* exactly) is never ended by that panic.
C3_CapacityGuard ==
    file_name # "none"
      => /\ (file_len > inactive.size
               => pc = "failed" /\ fault = "FileTooLarge" /\ Len(ChunkWrites) = 0)
         /\ (file_len <= inactive.size => fault # "FileTooLarge")
         /\ (file_len = inactive.size /\ Len(trace) = 2 => pc = "prepare")

\* C3 witness: an image one byte longer than the slot was rejected right
\* after discovery.
C3_Witness ==
    /\ fault = "FileTooLarge" /\ file_len = inactive.size + 1
    /\ Len(trace) = 2 /\ inactive.size > 0

\* C4: a chunk-write response that deserialize returned and that echoes
\* another segment or another offset than the request before it, or a result
\* other than Success, is the last event of the invocation: the invocation
\* has failed on that check and the cursor still stands at the chunk's offset.
C4_EchoValidation ==
    \A i \in 2..Len(trace) :
       ( /\ IsResponse(trace[i], "WriteChunkResponse")
         /\ IsChunkWrite(trace[i - 1])
         /\ \/ trace[i].msg.segment_and_location # trace[i - 1].req.segment_and_location
            \/ trace[i].msg.offset # trace[i - 1].req.offset
            \/ trace[i].msg.result # "Success" )
       => /\ i = Len(trace)
          /\ pc = "failed"
          /\ fault \in {"ChunkSegmentAndLocation", "ChunkOffset", "ChunkResult"}
          /\ pos = trace[i - 1].req.offset

\* C4 witness: the response to the second chunk echoed a wrong offset.
C4_Witness ==
    /\ fault = "ChunkOffset" /\ Len(ChunkWrites) = 2
    /\ resp.msg.segment_and_location = inactive.identifier
    /\ resp.msg.offset # pos /\ pos > 0

\* C5: an update-prepare response that echoes another segment than the one
\* requested or a result other than Success is the last event of the
\* invocation, which has failed on that check without any chunk write; and
\* the transfer loop runs (or a chunk was written) only after a response that
\* echoed the requested segment with Success, with max_chunk_length taken
\* from that response.
C5_PrepareValidation ==
    /\ \A i \in 2..Len(trace) :
          ( /\ IsResponse(trace[i], "UpdatePrepareResponse")
            /\ IsPrepareWrite(trace[i - 1])
            /\ \/ trace[i].msg.segment_and_location
                    # trace[i - 1].req.segment_and_location
               \/ trace[i].msg.result # "Success" )
          => /\ i = Len(trace)
             /\ pc = "failed"
             /\ fault \in {"PrepareSegmentAndLocation", "PrepareResult"}
             /\ Len(ChunkWrites) = 0
    /\ (pc \in {"loop", "chunk_read"} \/ Len(ChunkWrites) > 0)
         => \E i \in 2..Len(trace) :
               /\ IsResponse(trace[i], "UpdatePrepareResponse")
               /\ IsPrepareWrite(trace[i - 1])
               /\ trace[i].msg.segment_and_location
                    = trace[i - 1].req.segment_and_location
               /\ trace[i].msg.result = "Success"
               /\ max_chunk_length = trace[i].msg.max_chunk_length

\* C5 witness: the device answered update-prepare for the right segment with
\* a result other than Success.
C5_Witness ==
    /\ fault = "PrepareResult"
    /\ resp.msg.segment_and_location = inactive.identifier
    /\ resp.msg.result = "Busy" /\ resp.msg.max_chunk_length > 0

\* C6: ro_update takes the A file exactly for RoA and the B file exactly for
\* RoB, rw_update the A file exactly for RwA and the B file exactly for RwB;
\* on any other identifier the invocation fails as an unexpected segment with
\* no update-prepare and no chunk write; and every update-prepare and chunk
\* write names the discovered segment.
C6_SlotSelection ==
    /\ (cmd = "ro_update" /\ inactive # NoSegment)
         => /\ (file_name = "a" <=> inactive.identifier = "RoA")
            /\ (file_name = "b" <=> inactive.identifier = "RoB")
            /\ (inactive.identifier \notin {"RoA", "RoB"}
                  => /\ pc = "failed" /\ fault = "UnexpectedSegment"
                     /\ Len(PrepareWrites) = 0 /\ Len(ChunkWrites) = 0)
    /\ (cmd = "rw_update" /\ inactive # NoSegment)
         => /\ (file_name = "a" <=> inactive.identifier = "RwA")
            /\ (file_name = "b" <=> inactive.identifier = "RwB")
            /\ (inactive.identifier \notin {"RwA", "RwB"}
                  => /\ pc = "failed" /\ fault = "UnexpectedSegment"
                     /\ Len(PrepareWrites) = 0 /\ Len(ChunkWrites) = 0)
    /\ (file_name # "none" => file_len = files[file_name])
    /\ \A i \in 1..Len(trace) :
          (IsChunkWrite(trace[i]) \/ IsPrepareWrite(trace[i]))
            => trace[i].req.segment_and_location = inactive.identifier

\* C6 witness: ro_update found RoB inactive and transferred the B file, whose
\* length differs from that of the A file.
C6_Witness ==
    /\ cmd = "ro_update" /\ inactive.identifier = "RoB" /\ file_name = "b"
    /\ files.a # files.b /\ pc = "done" /\ Len(ChunkWrites) > 0

\* The envelope header of the window handed to deserialize in the codec runs.
WHeader == HeaderFromWire(wrx)
WDecoded == wop \in {"decoded", "flipped", "tampered"}
WChecksumDiffers ==
    /\ WHeader.ok
    /\ ChecksumInBounds(WHeader.content_len, wrx, HEADER_LEN)
    /\ WHeader.checksum
         # compute_checksum(WHeader.content, WHeader.content_len, wrx, HEADER_LEN)

\* C7: in both families, whenever the checksum field of the received header
\* differs from the checksum computed over the received bytes, deserialize
\* ends with the checksum fault and returns no message, whatever the content
\* type, the content length and the payload.
C7_ChecksumEnforced ==
    (WDecoded /\ WChecksumDiffers) => (wout.fault = "Checksum" /\ wout.msg = NoMsg)

\* C7 witness: a query-family frame came back as an Error envelope with a
\* wrong checksum, and was refused for its checksum.
C7_Witness ==
    /\ wop = "tampered" /\ ~IsFirmware(wmsg.type) /\ WChecksumDiffers
    /\ WHeader.content = ContentType.Error /\ wout.fault = "Checksum"

\* The flipped bit lies outside the checksum field (bytes 4 and 5).
FlippedOutsideChecksum ==
    wop = "flipped" /\ (wbit \div 8) + 1 \notin {HEADER_LEN - 1, HEADER_LEN}

C9_EnvelopeRoundTrip ==
    (wop = "decoded" /\ IsRequest(wmsg.type))
      => /\ WHeader.ok /\ ~WChecksumDiffers
         /\ WHeader.content_len = Len(BodyBytes(wmsg))
         /\ Len(wframe) = HEADER_LEN + WHeader.content_len
         /\ wout.fault \notin {"HeaderParse", "Bounds", "Checksum", "DeviceReportedError",
                               "ErrorHeaderParse", "UnexpectedContentType"}
         /\ wout.content = FamilyContent(wmsg.type)
         /\ wout.body = BodyBytes(wmsg)

\* C9 witness: a chunk-write request that fills the send buffer went through
\* the round trip in a window padded with 0xff bytes.
C9_Witness ==
    /\ wop = "decoded" /\ wmsg.type = "WriteChunkRequest"
    /\ Len(wframe) = SPI_MAX_WRITE /\ wrx.pad = 255
    /\ wout.body = BodyBytes(wmsg)

\* The envelope header of the window last read from the mailbox.
RxHeader == HeaderFromWire(rx)
RxChecksumValid ==
    /\ RxHeader.ok
    /\ ChecksumInBounds(RxHeader.content_len, rx, HEADER_LEN)
    /\ RxHeader.checksum
         = compute_checksum(RxHeader.content, RxHeader.content_len, rx, HEADER_LEN)
\* The content type of the family the subcommand talks in.
CmdContent ==
    IF cmd \in {"device_info", "fw_info"} THEN ContentType.Manticore
    ELSE ContentType.Firmware

\* C10: in both families, a window read with a valid checksum and content
\* type Error ends the invocation with the device-error panic and no message
\* returned, one with the content type of the other family ends it as an
\* unexpected content type; and a read that ended in a fault is always the
\* last event: no request is written after it.
C10_DeviceErrorsNotAbsorbed ==
    /\ (LastIsRead /\ RxChecksumValid /\ RxHeader.content = ContentType.Error)
         => /\ pc = "failed" /\ resp.msg = NoMsg
            /\ fault \in {"DeviceReportedError", "ErrorHeaderParse"}
    /\ (LastIsRead /\ RxChecksumValid /\ RxHeader.content = OtherFamily(CmdContent))
         => /\ pc = "failed" /\ resp.msg = NoMsg
            /\ fault = "UnexpectedContentType"
    /\ \A i \in 1..(Len(trace) - 1) : IsRead(trace[i]) => trace[i].fault = "none"

\* C10 witness: during the transfer the device answered a chunk write with an
\* Error envelope of valid checksum.
C10_Witness ==
    /\ LastIsRead /\ RxChecksumValid /\ RxHeader.content = ContentType.Error
    /\ fault = "DeviceReportedError" /\ Len(ChunkWrites) >= 1

\* The bytes of the window last read that the envelope header counts as
\* content, and the response type the call site of the last exchange expects.
RxBody == BufSlice(rx, HEADER_LEN + 1, HEADER_LEN + RxHeader.content_len)
ExpectedType == ResponseType(trace[Len(trace) - 1].req.type)
\* The window last read passed the envelope checks of its family.
EnvelopePassed ==
    /\ LastIsRead /\ Len(trace) >= 2 /\ trace[Len(trace) - 1].ev = "write"
    /\ RxChecksumValid /\ RxHeader.content = CmdContent

\* C11: of the windows that pass the envelope checks, deserialize returns a
\* message only when the sub-header tag is the one of the type expected at
\* the call site and, in the query family, the direction flag says response;
\* a parsed sub-header with another tag ends the invocation as an unexpected
\* message type, and a query-family sub-header with the expected tag and the
\* direction flag saying request ends it as an unexpected direction.
C11_SubProtocolValidation ==
    EnvelopePassed
      => IF CmdContent = ContentType.Firmware
         THEN /\ resp.fault = "none"
                   => /\ resp.msg.type = ExpectedType
                      /\ Len(RxBody) >= 1 /\ RxBody[1] = FirmwareType(ExpectedType)
              /\ ( /\ Len(RxBody) >= 1 /\ RxBody[1] \in FirmwareCommandValues
                   /\ RxBody[1] # FirmwareType(ExpectedType) )
                   => /\ pc = "failed" /\ fault = "UnexpectedMessageType"
                      /\ resp.msg = NoMsg
         ELSE /\ resp.fault = "none"
                   => /\ resp.msg.type = ExpectedType
                      /\ Len(RxBody) >= 2 /\ RxBody[2] = ManticoreType(ExpectedType)
                      /\ RxBody[1] % 2 = 0
              /\ ( /\ Len(RxBody) >= 2 /\ RxBody[2] \in ManticoreCommandValues
                   /\ RxBody[2] # ManticoreType(ExpectedType) )
                   => /\ pc = "failed" /\ fault = "UnexpectedMessageType"
                      /\ resp.msg = NoMsg
              /\ ( /\ Len(RxBody) >= 2 /\ RxBody[2] = ManticoreType(ExpectedType)
                   /\ RxBody[1] % 2 = 1 )
                   => /\ pc = "failed" /\ fault = "UnexpectedDirection"
                      /\ resp.msg = NoMsg

\* C11 witness: a firmware-version exchange was answered by a frame of valid
\* envelope with the expected command and the direction flag saying request.
C11_Witness ==
    /\ EnvelopePassed /\ cmd = "fw_info" /\ Len(RxBody) >= 2
    /\ RxBody[2] = ManticoreCommand.FirmwareVersion /\ RxBody[1] = 1
    /\ fault = "UnexpectedDirection"

IsWriting(e) == e.ev \in {"write", "write_failed"}
IsReading(e) == e.ev \in {"read", "read_failed"}

\* The transport operations of the invocation are exchanges in sequence: a
\* write, then a read of SPI_MAX_READ bytes, all at Device.mailbox_addr.
ExchangesInOrder ==
    /\ \A i \in 1..Len(trace) :
          /\ (i % 2 = 1 => IsWriting(trace[i]))
          /\ (i % 2 = 0 => IsReading(trace[i]) /\ trace[i - 1].ev = "write")
          /\ trace[i].address = mailbox_addr
          /\ (IsReading(trace[i]) => trace[i].length = SPI_MAX_READ)
          /\ (trace[i].ev = "write"
                => trace[i].frame_len = HEADER_LEN + trace[i].content_len)
    /\ (Len(trace) > 0 /\ trace[Len(trace)].ev = "write"
          => Len(mailbox) = trace[Len(trace)].frame_len)
    /\ (cmd \notin {"ro_update", "rw_update"} => Len(trace) <= 2)
    /\ (pc = "done" => Len(trace) % 2 = 0 /\ Len(trace) >= 2)
    /\ (Len(trace) > 0 => mailbox_addr >= 0)
    /\ \A i \in 1..Len(tool) :
          tool[i].op \in {"write", "read"}
            => /\ tool[i].address = mailbox_addr
               /\ (tool[i].op = "read" => tool[i].length = SPI_MAX_READ)

\* C12: every exchange is one mailbox write of the encoded frame followed by
\* one mailbox read of a window of 2048 bytes, a read never comes before the
\* write of its exchange, every write and read is at the mailbox address of
\* the device connection, and that address never changes once it is set.
C12_ExchangeOrdering ==
    /\ []ExchangesInOrder
    /\ [][mailbox_addr # -1 => mailbox_addr' = mailbox_addr]_vars

\* C12 witness: an update over the tool-backed transport at its default
\* mailbox address ran through discovery, prepare and two chunks.
C12_Witness ==
    /\ cmd = "rw_update" /\ spi = "haventool" /\ mailbox_arg = "default"
    /\ mailbox_addr = HAVENTOOL_DEFAULT_MAILBOX_ADDR
    /\ pc = "done" /\ Len(trace) = 8 /\ Len(ChunkWrites) = 2

\* Event e records a transport operation that went well and, for a read, a
\* response that deserialize accepted.
WentWell(e) == e.ev = "write" \/ (e.ev = "read" /\ e.fault = "none")

\* Whatever failed is the last thing the invocation did on the transport.
FailedLast ==
    /\ \A i \in 1..(Len(trace) - 1) : WentWell(trace[i])
    /\ \A i \in 1..(Len(tool) - 1) : tool[i].status = "ok"
    /\ (Len(trace) > 0 /\ ~WentWell(trace[Len(trace)]) => pc = "failed")
    /\ (Len(tool) > 0 /\ tool[Len(tool)].status # "ok" => pc = "failed")
    /\ (spi_err # "none" => pc = "failed")
    /\ (pc = "failed" <=> fault # "none")
    /\ (Len(trace) > 0 /\ trace[Len(trace)].ev = "write_failed"
          => fault = "MailboxWrite" /\ spi_err # "none")
    /\ (Len(trace) > 0 /\ trace[Len(trace)].ev = "read_failed"
          => fault = "MailboxRead" /\ spi_err # "none")
    \* the request of an exchange is not the one of the exchange before it:
    \* it is of another type, or a chunk at a greater offset
    /\ \A i \in 1..(Len(trace) - 2) :
          (trace[i].ev = "write" /\ trace[i + 2].ev = "write")
            => \/ trace[i].req.type # trace[i + 2].req.type
               \/ /\ IsChunkWrite(trace[i])
                  /\ trace[i].req.offset < trace[i + 2].req.offset

\* C13: a failed mailbox write, a failed mailbox read, a response refused by
\* deserialize or by the echo checks is the last transport operation of the
\* invocation: nothing is written or read after it (a failed write is not
\* followed by the read of its exchange), no request is written twice, and
\* once the invocation has failed it takes no further step.
C13_FailFast ==
    /\ []FailedLast
    /\ [][pc # "failed" /\ fault = "none"]_vars

\* C13 witness: the write of the first chunk failed after discovery and
\* update-prepare went well; the history ends with that failed write.
C13_Witness ==
    /\ fault = "MailboxWrite" /\ Len(trace) = 5 /\ trace[5].ev = "write_failed"
    /\ Len(PrepareWrites) = 1 /\ Len(ChunkWrites) = 0

\* Some transport operation was made: a mailbox write or read was attempted
\* or the external tool was invoked.
TransportUsed == Len(trace) > 0 \/ Len(tool) > 0

\* C14 (as claimed): a transport is used only when exactly one of --haventool
\* and --spidevice is given; with both given the invocation is refused, and
\* with neither it fails as a configuration error, in both cases before any
\* transport operation.
C14_ExactlyOneBackend ==
    /\ TransportUsed => (haventool_arg # spidevice_arg)
    /\ (pc # "main" /\ haventool_arg /\ spidevice_arg)
         => pc = "failed" /\ ~TransportUsed
    /\ (pc # "main" /\ ~haventool_arg /\ ~spidevice_arg)
         => pc = "failed" /\ fault = "NoSpiInterface" /\ ~TransportUsed

\* The raw-write invocations of the tool so far.
IsRaw(c) == c.op = "raw"
RawCalls == SelectSeq(tool, IsRaw)

\* C15: with the tool-backed transport the enter-4-byte-addressing raw write
\* is the first invocation of the tool and the only raw one, it has ended
\* well before any mailbox write or read is made, and when it fails (or the
\* temp file cannot be written) construction fails and no mailbox write or
\* read is ever made; the direct transport never invokes the tool.
C15_HandshakeFirst ==
    /\ Len(tool) > 0 => (haventool_arg /\ tool[1].op = "raw")
    /\ Len(RawCalls) <= 1
    /\ \A i \in 2..Len(tool) : tool[i].op \in {"write", "read"} /\ tool[1].status = "ok"
    /\ spi = "haventool"
         => Len(RawCalls) = 1 /\ tool[1].op = "raw" /\ tool[1].status = "ok"
    /\ (haventool_arg /\ Len(trace) > 0) => spi = "haventool"
    /\ (haventool_arg /\ pc # "main" /\ spi # "haventool")
         => /\ pc = "failed" /\ fault = "HaventoolInstantiate"
            /\ Len(trace) = 0 /\ Len(tool) <= 1
    /\ fault = "HaventoolInstantiate" => Len(trace) = 0 /\ spi = "none"

\* C15 witness: after the handshake the tool was invoked for the write and
\* for the read of an exchange.
C15_Witness ==
    /\ spi = "haventool" /\ Len(tool) >= 3
    /\ tool[1].op = "raw" /\ tool[2].op = "write" /\ tool[3].op = "read"

\* The handshake was not completed: construction was attempted and no raw
\* invocation of the tool ended well.
HandshakeNotCompleted ==
    /\ haventool_arg /\ pc # "main"
    /\ ~(Len(tool) >= 1 /\ tool[1].status = "ok")

\* C16 (as claimed): whenever the handshake cannot be completed, the
\* construction of the tool-backed transport fails with DeviceError.
C16_HandshakeFailureIsDeviceError ==
    HandshakeNotCompleted
      => fault = "HaventoolInstantiate" /\ spi_err = "DeviceError"

\* C16 (amended): whenever the handshake cannot be completed, construction
\* fails; with DeviceError when the temp file cannot be written (the tool is
\* not invoked), with OperationFailed when the tool cannot be launched or
\* exits with a non-zero status.
C16_HandshakeFailureKinds ==
    HandshakeNotCompleted
      => /\ pc = "failed" /\ fault = "HaventoolInstantiate" /\ spi = "none"
         /\ Len(tool) = 0 => spi_err = "DeviceError"
         /\ Len(tool) > 0
              => /\ tool[1].status \in {"Launch", "NonZeroExit"}
                 /\ spi_err = "OperationFailed"

\* C16 witness: the tool exited with a non-zero status on the handshake.
C16_Witness ==
    /\ HandshakeNotCompleted /\ Len(tool) = 1 /\ tool[1].status = "NonZeroExit"
    /\ spi_err = "OperationFailed"

\* A step of the cursor: it does not go back, stays within the image, and
\* moves only on an accepted chunk response, by the length of the chunk sent.
CursorStep ==
    /\ pos' >= pos /\ pos' <= file_len'
    /\ pos' # pos
         => /\ pc = "chunk_read" /\ pc' = "loop"
            /\ IsChunkWrite(trace[Len(trace)])
            /\ pos = trace[Len(trace)].req.offset
            /\ pos' = pos + trace[Len(trace)].req.len

\* C17 (as claimed): once update-prepare has succeeded with a max chunk length
\* of at least 1, an invocation in which no response was refused and the
\* transport did not fail can only end in
\* Done with the cursor at the image length (every run is finite: each
\* exchange moves the cursor forward); and every step of the cursor goes
\* forward by the length of the chunk just sent, within the image.
C17_TransferTerminates ==
    /\ [][CursorStep]_vars
    /\ []((Prepared /\ max_chunk_length >= 1 /\ Ended /\ fault \notin EnvFaults)
            => (pc = "done" /\ pos = file_len))

IsWrite(e) == e.ev = "write"
\* The requests written to the mailbox, in order.
Writes == SelectSeq(trace, IsWrite)

\* The state of the update workflow the invocation stands in; a failed
\* invocation stands nowhere.
Phase ==
    CASE pc \in {"main", "start", "ro_discover", "rw_discover"} -> 0    \* Idle
      [] pc \in {"prepare", "prepare_read"} -> 1                        \* Discovered
      [] pc = "loop" /\ pos = 0 /\ Len(ChunkWrites) = 0 -> 2            \* Prepared
      [] pc \in {"loop", "chunk_read"} -> 3                             \* Transferring
      [] pc = "done" -> 4                                               \* Done
      [] OTHER -> 5

\* The discovery response at trace[2] was accepted: it decoded, named a
\* segment of the region the command updates, and the image fits the slot.
DiscoveryValidated ==
    /\ Len(trace) >= 2 /\ IsResponse(trace[2], "InactiveSegmentsInfoResponse")
    /\ inactive = (IF cmd = "ro_update" THEN trace[2].msg.ro ELSE trace[2].msg.rw)
    /\ inactive.identifier
         \in (IF cmd = "ro_update" THEN {"RoA", "RoB"} ELSE {"RwA", "RwB"})
    /\ file_len <= inactive.size

UpdateOrder ==
    cmd \in {"ro_update", "rw_update"}
      => /\ \A k \in 1..Len(Writes) :
               Writes[k].req.type
                 = (IF k = 1 THEN "InactiveSegmentsInfoRequest"
                    ELSE IF k = 2 THEN "UpdatePrepareRequest"
                    ELSE "WriteChunkRequest")
         /\ (Len(PrepareWrites) > 0 \/ Phase \in 1..3) => DiscoveryValidated
         /\ (Len(ChunkWrites) > 0 \/ Phase \in 2..3)
              => /\ Len(trace) >= 4 /\ IsPrepareWrite(trace[3])
                 /\ IsResponse(trace[4], "UpdatePrepareResponse")
                 /\ trace[4].msg.segment_and_location = inactive.identifier
                 /\ trace[4].msg.result = "Success"
         /\ (Phase = 4 => Len(Writes) >= 2 /\ pos = file_len)

\* A step of an update run does not go back in the workflow.
PhaseStep == (cmd \in {"ro_update", "rw_update"}) => (Phase' >= Phase)

\* C18: in an ro_update / rw_update run the requests written are one
\* inactive-segments-info request, then at most one update-prepare request,
\* then chunk-write requests only; update-prepare is written only after an
\* accepted discovery response, a chunk only after an update-prepare response
\* that echoed the segment with Success; and the workflow only moves forward
\* through Idle, Discovered, Prepared, Transferring, Done.
C18_WorkflowOrder ==
    /\ []UpdateOrder
    /\ [][PhaseStep]_vars

\* C18 witness: an rw_update run went through all the states and wrote the
\* discovery request, update-prepare and two chunks.
C18_Witness ==
    /\ cmd = "rw_update" /\ pc = "done" /\ Len(Writes) = 4
    /\ Len(ChunkWrites) = 2 /\ Len(PrepareWrites) = 1

\* The number of bytes of sub-header and message of a request, by its type:
\* firmware sub-header 1, segment 1, offset 4, reboot time 1; manticore
\* sub-header 2, index 1.
RequestContentLen(req) ==
    CASE req.type = "InactiveSegmentsInfoRequest" -> 1
      [] req.type = "UpdatePrepareRequest" -> 1 + 1
      [] req.type = "WriteChunkRequest" -> 1 + 1 + 4 + req.len
      [] req.type = "RebootRequest" -> 1 + 1
      [] OTHER -> 2 + 1

\* C19: every frame written to the mailbox has an envelope content_len equal
\* to the number of bytes of sub-header and message that follow the envelope
\* header, a length of header length + content_len, and a length of at most
\* 512 bytes; when a request does not fit the send buffer, nothing of it is
\* handed to the transport: the write is not even attempted.
C19_OutboundFrame ==
    /\ \A i \in 1..Len(trace) :
          IsWrite(trace[i])
            => /\ trace[i].content_len = RequestContentLen(trace[i].req)
               /\ trace[i].frame_len = HEADER_LEN + trace[i].content_len
               /\ trace[i].frame_len <= SPI_MAX_WRITE
    /\ (Len(trace) > 0 /\ IsWrite(trace[Len(trace)]))
         => /\ Len(mailbox) = trace[Len(trace)].frame_len
            /\ RdU16(mailbox, 2) = Len(mailbox) - HEADER_LEN
    /\ \A i \in 1..Len(tool) :
          tool[i].op = "write" => tool[i].length <= SPI_MAX_WRITE
    /\ fault = "ToWire"
         => /\ Len(trace) > 0 /\ IsResponse(trace[Len(trace)], resp.msg.type)
            /\ Min(max_chunk_length, file_len - pos) > MaxFittingChunk
            /\ \A i \in 1..Len(trace) :
                  IsChunkWrite(trace[i]) => trace[i].req.offset < pos
            /\ (Len(tool) > 0 => tool[Len(tool)].op # "write")

\* C19 witness: a chunk-write request that fills the send buffer to its last
\* byte was written to the mailbox.
C19_Witness ==
    /\ Len(ChunkWrites) >= 1 /\ ChunkWrites[1].frame_len = SPI_MAX_WRITE
    /\ ChunkWrites[1].req.len = MaxFittingChunk

\* Window w with every byte after the envelope header and the content_len
\* bytes it announces replaced by `pad`.
Repadded(w, pad) ==
    Buffer(BufSlice(w, 1, Min(w.len, HEADER_LEN + HeaderFromWire(w).content_len)),
           pad, w.len)

\* C20 (as claimed): the outcome of deserialize on a window (the message, or
\* the fault) does not depend on the bytes that follow the content_len bytes
\* after the envelope header: the same window with other bytes there decodes
\* to the same outcome.
C20_PaddingIgnored ==
    WDecoded
      => \A pad \in WindowPads : Deserialize(Repadded(wrx, pad), wmsg.type) = wout

\* The field of a chunk-write response that is the first, in the order
\* segment_and_location, offset, result, to differ from what the request
\* asked for; "none" when the response echoes the request with Success.
FirstMismatch(req, msg) ==
    IF msg.segment_and_location # req.segment_and_location THEN "ChunkSegmentAndLocation"
    ELSE IF msg.offset # req.offset THEN "ChunkOffset"
    ELSE IF msg.result # "Success" THEN "ChunkResult"
    ELSE "none"

\* C21: a chunk-write response that deserialize returned and that does not
\* echo the request with Success ends the invocation with the fault of one
\* field only: segment_and_location when the segment differs, whatever the
\* offset and the result are; else offset when the offset differs, whatever
\* the result is; else result.  A response that echoes the request with
\* Success raises none of the three.
C21_MismatchPrecedence ==
    \A i \in 2..Len(trace) :
       ( IsResponse(trace[i], "WriteChunkResponse") /\ IsChunkWrite(trace[i - 1]) )
       => IF FirstMismatch(trace[i - 1].req, trace[i].msg) # "none"
          THEN /\ i = Len(trace)
               /\ pc = "failed"
               /\ fault = FirstMismatch(trace[i - 1].req, trace[i].msg)
          ELSE ~ ( i = Len(trace) /\ pc = "failed" )

\* C21 witness: the response echoed the right segment, a wrong offset and
\* a result other than Success, and the fault names the offset.
C21_Witness ==
    /\ pc = "failed" /\ fault = "ChunkOffset" /\ LastIsRead
    /\ IsResponse(trace[Len(trace)], "WriteChunkResponse")
    /\ resp.msg.segment_and_location = inactive.identifier
    /\ resp.msg.offset # pos
    /\ resp.msg.result # "Success"

\* C21 second case: all three fields differ and the fault names the segment.
C21_SegmentFirst ==
    /\ pc = "failed" /\ fault = "ChunkSegmentAndLocation" /\ LastIsRead
    /\ IsResponse(trace[Len(trace)], "WriteChunkResponse")
    /\ resp.msg.segment_and_location # inactive.identifier
    /\ resp.msg.offset # pos
    /\ resp.msg.result # "Success"

\* A turn of the transfer loop that starts with a negotiated chunk length of
\* 0 ends the invocation on the chunk-length check with nothing written, and
\* a turn that comes back to the loop has moved the cursor forward.
ZeroChunkStep ==
    /\ ( pc = "loop" /\ max_chunk_length = 0 /\ pos < file_len )
          => ( pc' = "failed" /\ fault' = "InvalidChunkLen"
               /\ trace' = trace /\ pos' = pos )
    /\ ( pc = "chunk_read" /\ pc' = "loop" ) => pos' > pos

\* C22: when update-prepare was answered with the requested segment, Success
\* and max_chunk_length = 0 for a non-empty image, no chunk-write request is
\* ever written and the invocation ends with the invalid-chunk-length fault;
\* no chunk-write request carries zero bytes; and no turn of the loop leaves
\* the cursor where it was.
C22_ZeroChunkLength ==
    /\ [][ZeroChunkStep]_vars
    /\ [](\A i \in 1..Len(trace) : IsChunkWrite(trace[i]) => trace[i].req.len >= 1)
    /\ []( ( Prepared /\ max_chunk_length = 0 /\ file_len > 0 )
            => /\ Len(ChunkWrites) = 0
               /\ pos = 0
               /\ pc \in {"loop", "failed"}
               /\ pc = "failed" => fault = "InvalidChunkLen" )

\* C22 witness: update-prepare succeeded with max_chunk_length = 0 for a
\* non-empty image and the invocation ended on the chunk-length check.
C22_Witness ==
    /\ Prepared /\ max_chunk_length = 0 /\ file_len > 0
    /\ pc = "failed" /\ fault = "InvalidChunkLen"
    /\ Len(ChunkWrites) = 0 /\ IsResponse(trace[Len(trace)], "UpdatePrepareResponse")

\* C25: in an invocation whose selected image is longer than the capacity
\* of the inactive slot, the mailbox saw one request only, the
\* inactive-segments-info query, and its response; the invocation has ended
\* on the capacity check.  An update-prepare request is written only for an
\* image that fits the slot.
C25_OversizedNeverPrepared ==
    /\ ( file_name # "none" /\ file_len > inactive.size )
         => /\ pc = "failed" /\ fault = "FileTooLarge"
            /\ Len(Writes) = 1
            /\ Writes[1].req.type = "InactiveSegmentsInfoRequest"
            /\ Len(PrepareWrites) = 0 /\ Len(ChunkWrites) = 0
            /\ Len(trace) = 2
    /\ Len(PrepareWrites) > 0
         => ( file_name # "none" /\ file_len <= inactive.size )

\* C25 witness: an rw_update whose selected image is longer than the slot
\* ended after the discovery exchange alone.
C25_Witness ==
    /\ cmd = "rw_update" /\ file_name # "none" /\ file_len > inactive.size
    /\ pc = "failed" /\ Len(Writes) = 1
    /\ IsResponse(trace[Len(trace)], "InactiveSegmentsInfoResponse")

\* The transfer loop of an empty image ends at once, with nothing written.
EmptyImageStep ==
    ( pc = "loop" /\ file_name # "none" /\ file_len = 0 )
      => ( pc' = "done" /\ trace' = trace /\ UNCHANGED fault )

\* C26: in an invocation whose selected image is empty, the capacity check
\* passes and update-prepare is sent for the inactive segment; the invocation
\* can fail only on the transport or on a response (never on the capacity,
\* the chunk length or the encoding of a request); once the update-prepare
\* response is accepted, the loop ends at once and the invocation is done,
\* after exactly one update-prepare request and no chunk-write request.
C26_EmptyImage ==
    /\ [][EmptyImageStep]_vars
    /\ []( ( file_name # "none" /\ file_len = 0 )
            => /\ pc \in {"prepare", "prepare_read", "loop", "done", "failed"}
               /\ Len(ChunkWrites) = 0 /\ pos = 0
               /\ pc = "failed" => fault \in EnvFaults
               /\ pc \in {"prepare_read", "loop", "done"}
                    => /\ Len(PrepareWrites) = 1
                       /\ PrepareWrites[1].req.segment_and_location
                            = inactive.identifier
               /\ Prepared => pc \in {"loop", "done"}
               /\ pc \in {"loop", "done"} => Prepared
               /\ pc = "done" => Len(Writes) = 2 /\ Len(trace) = 4 )

\* C26 witness: an update with an empty image is done after the discovery
\* and the update-prepare exchanges alone.
C26_Witness ==
    /\ file_name # "none" /\ file_len = 0 /\ pc = "done"
    /\ Prepared /\ Len(PrepareWrites) = 1 /\ Len(ChunkWrites) = 0

\* A window was handed to deserialize, whose outcome is wout.
WReceived == WDecoded \/ wop = "composed"
\* The bytes of the window that the envelope header counts as content, the
\* command byte of their sub-header and the message bytes after it.
WBody == BufSlice(wrx, HEADER_LEN + 1, HEADER_LEN + WHeader.content_len)
WCommandByte == WBody[SubHeaderLen(wmsg.type)]
WMessageBytes == SubSeq(WBody, SubHeaderLen(wmsg.type) + 1, Len(WBody))
WExpectedCommand ==
    IF IsFirmware(wmsg.type) THEN FirmwareType(wmsg.type) ELSE ManticoreType(wmsg.type)
WSubHeaderParsed ==
    /\ WHeader.ok /\ ChecksumInBounds(WHeader.content_len, wrx, HEADER_LEN)
    /\ Len(WBody) >= SubHeaderLen(wmsg.type)
    /\ WCommandByte \in (IF IsFirmware(wmsg.type) THEN FirmwareCommandValues
                          ELSE ManticoreCommandValues)

\* The checks of deserialize, numbered in the order of the claim, each taken
\* on its own on the window received: 1 the envelope header parses, 2 the
\* checksum can be computed and is the one of the header, 3 the content type
\* is not Error, 4 the content type is the one of the family, 5 the
\* sub-header parses, names the expected command and (query family) says
\* response, 6 the message parses (taken on the windows whose checksum
\* holds: the bytes of the others are not the ones the sender summed).
\* CheckFails(k) says that check k fails.
CheckFails(k) ==
    CASE k = 1 -> ~WHeader.ok
      [] k = 2 -> /\ WHeader.ok
                  /\ \/ ~ChecksumInBounds(WHeader.content_len, wrx, HEADER_LEN)
                     \/ WChecksumDiffers
      [] k = 3 -> WHeader.ok /\ WHeader.content = ContentType.Error
      [] k = 4 -> WHeader.ok /\ WHeader.content # FamilyContent(wmsg.type)
      [] k = 5 -> /\ WHeader.ok
                  /\ ChecksumInBounds(WHeader.content_len, wrx, HEADER_LEN)
                  /\ \/ ~WSubHeaderParsed
                     \/ WCommandByte # WExpectedCommand
                     \/ ~IsFirmware(wmsg.type) /\ WBody[1] % 2 = 1
      [] k = 6 -> /\ WSubHeaderParsed /\ ~WChecksumDiffers
                  /\ ( IF IsFirmware(wmsg.type)
                       THEN FirmwareFromWire(ResponseType(wmsg.type), WMessageBytes)
                       ELSE ManticoreFromWire(ResponseType(wmsg.type), WMessageBytes)
                     ).type = "None"

\* The check a fault is raised by; 7 for no fault.
CheckOf(f) ==
    CASE f = "HeaderParse" -> 1
      [] f \in {"Bounds", "Checksum"} -> 2
      [] f \in {"DeviceReportedError", "ErrorHeaderParse"} -> 3
      [] f = "UnexpectedContentType" -> 4
      [] f \in {"SubHeaderParse", "UnexpectedMessageType", "UnexpectedDirection"} -> 5
      [] f = "BodyParse" -> 6
      [] f = "none" -> 7

\* C24: in both families the fault deserialize ends with is the one of the
\* first check that fails, in the order envelope header, checksum, content
\* type Error, content type of the family, sub-header (command, then
\* direction in the query family), message: no check that fails comes before
\* the one that raised the fault, and the check that raised it does fail.  A
\* window whose checksum differs ends as a checksum fault also when its
\* content type is Error or the other family's; a query-family sub-header
\* with another command and the request flag ends as an unexpected message
\* type; and a fault returns no message.
C24_DecodePrecedence ==
    WReceived
      => /\ \A k \in 1..6 : CheckFails(k) => CheckOf(wout.fault) <= k
         /\ CheckOf(wout.fault) <= 6 => CheckFails(CheckOf(wout.fault))
         /\ ( WChecksumDiffers /\ WHeader.content # FamilyContent(wmsg.type) )
              => wout.fault = "Checksum"
         /\ ( /\ wout.fault \in {"UnexpectedMessageType", "UnexpectedDirection"}
              /\ ~IsFirmware(wmsg.type) )
              => ( wout.fault = "UnexpectedMessageType"
                     <=> WCommandByte # WExpectedCommand )
         /\ wout.fault # "none" => wout.msg = NoMsg

\* C24 witness: a firmware-family exchange was answered by a frame of content
\* type Error with a wrong checksum, another command and no message bytes,
\* and ended as a checksum fault.
C24_Witness ==
    /\ wop = "composed" /\ IsFirmware(wmsg.type)
    /\ WChecksumDiffers /\ WHeader.content = ContentType.Error
    /\ CheckFails(5) /\ Len(WBody) = 1
    /\ wout.fault = "Checksum"

\* C24, later checks: a query-family frame of valid envelope with another
\* command, the request flag and no message bytes ended as an unexpected
\* message type.
C24_CommandBeforeDirection ==
    /\ wop = "composed" /\ ~IsFirmware(wmsg.type)
    /\ ~CheckFails(2) /\ ~CheckFails(4) /\ WSubHeaderParsed
    /\ WCommandByte # WExpectedCommand /\ WBody[1] % 2 = 1 /\ CheckFails(6)
    /\ wout.fault = "UnexpectedMessageType"

\* Entry e of tlog changed the contents of the temp file.
TmpModifies(e) == e.ev \in {"truncate", "fill"} \/ (e.ev = "invoke" /\ e.op = "read")
\* tlog[j] ends an fs::write that landed whole (its two halves one after the
\* other), and nothing changed the temp file from then to tlog[i].
LandedBefore(j, i) ==
    /\ 2 <= j /\ j < i
    /\ tlog[j].ev = "fill" /\ tlog[j - 1].ev = "truncate"
    /\ tlog[j - 1].user = tlog[j].user
    /\ \A k \in (j + 1)..(i - 1) : ~TmpModifies(tlog[k])
\* The tool was run for a raw or a write.
IsTransmit(e) == e.ev = "invoke" /\ e.op \in {"raw", "write"}
\* The first bytes of d that fit the buffer of a read.
ReadOf(d) == SubSeq(d, 1, Min(ReadBufLen, Len(d)))

\* C23: whichever users are at work, the tool run for a raw or a write
\* sends the bytes of the write to the temp file that landed last before
\* the run, and a read returns the bytes of the write that landed last
\* before the read-back, be it a write of the caller or of another user
\* (the path is the same for all and nothing locks it).  With one user
\* alone, every tool run for a write or a raw sends exactly the data passed
\* to the call, with --length the length of the data of the write, and
\* every read returns what the tool read from the device.
C23_SharedTempFile ==
    /\ \A i \in 1..Len(tlog) : \A j \in 1..(i - 1) :
          LandedBefore(j, i)
            => /\ IsTransmit(tlog[i]) => tlog[i].bytes = tlog[j].data
               /\ tlog[i].ev = "readback" => tlog[i].bytes = ReadOf(tlog[j].data)
    /\ \A i \in 1..Len(tlog) :
          tlog[i].op = "write" => tlog[i].length = Len(tlog[i].data)
    /\ Cardinality(owners) = 1
         => \A i \in 1..Len(tlog) :
               /\ IsTransmit(tlog[i]) => tlog[i].bytes = tlog[i].data
               /\ tlog[i].ev = "readback"
                    => tlog[i].bytes = DeviceWindow(tlog[i].user)

\* C23 witness: a write of one user landed between the write of another
\* user to the temp file and the tool run of that user, and the tool sent
\* the bytes of the former, of another length than --length.
C23_Witness ==
    \E i \in 1..Len(tlog) : \E j \in 1..(i - 1) :
       /\ LandedBefore(j, i) /\ tlog[i].ev = "invoke" /\ tlog[i].op = "write"
       /\ tlog[j].user # tlog[i].user /\ tlog[j].op = "write"
       /\ tlog[i].bytes = tlog[j].data /\ tlog[i].bytes # tlog[i].data
       /\ tlog[i].length # Len(tlog[i].bytes)

\* C23, the reader: a write of another user landed between the tool run of
\* a read and its read-back, and the read returned the bytes of that write.
C23_ReaderReceivesOthers ==
    \E i \in 1..Len(tlog) : \E j \in 1..(i - 1) :
       /\ LandedBefore(j, i) /\ tlog[i].ev = "readback"
       /\ tlog[j].user # tlog[i].user
       /\ tlog[i].bytes = ReadOf(tlog[j].data)
       /\ tlog[i].bytes # DeviceWindow(tlog[i].user)

\* C23, one user alone: its tool was run for a write with the temp file
\* holding the data of the write.
C23_SingleOwner ==
    /\ Cardinality(owners) = 1 /\ Len(tlog) = 3
    /\ tlog[3].ev = "invoke" /\ tlog[3].op = "write"
    /\ tlog[3].bytes = tlog[3].data /\ tlog[3].length = 3
====
